---- MODULE Spec2Model ----
(***************************************************************************)
(* Verification model of the sl-gem engine core:                           *)
(*   - EventBus   (engine/src/events.rs): topic registry behind a mutex,   *)
(*     one bounded crossbeam channel per subscription, fan-out publish.    *)
(*   - GameLoop   (engine/src/core.rs): run / process_frame / update /     *)
(*     render over a Receiver<PrioritizedEvent>.                           *)
(* Channels live in one pool (chan, rxAlive, txAlive); a channel id is the *)
(* index of its queue in the pool.                                         *)
(*                                                                         *)
(* Specifications:                                                         *)
(*   Spec      the event bus with concurrent publishers and subscribers    *)
(*   LoopSpec  the core game loop fed by a test-style sender               *)
(*   FairLoopSpec  LoopSpec with weak fairness of the loop thread          *)
(*   FullSpec  the event bus from the moment a subscriber's queue is full   *)
(*   PrioSpec  one subscriber, publish calls with every kind and priority   *)
(*   ErrorSpec the event bus with publish_error calls                       *)
(*   FacadeSpec  the Engine facade: plain subscriptions, start, stop        *)
(*   EngineLoopSpec  the wrapper GameLoop on a facade subscription, fair    *)
(*   StopSpec  the core loop fed with Stop events of every priority         *)
(*   UnitSpec  a model::Unit that moves, is damaged and starts new turns    *)
(*   BurstSpec the core loop, scheduled fairly, fed by a tireless producer  *)
(*   CloneSpec the event bus used through clones of its handle              *)
(*   RetagSpec the wrapper GameLoop fed with explicit publish priorities    *)
(*   GuiSpec   a MapGUI publishing on a bus with at most one subscriber     *)
(***************************************************************************)
EXTENDS Integers, Sequences, FiniteSets, TLC

VARIABLES
    senders,          \* EventBus.senders: topic -> Vec<Sender>, as channel ids
    lock,             \* holder of the Mutex around senders ("free" or a publisher)
    chan,             \* channel pool: chan[c] is the queue of channel c
    rxAlive,          \* rxAlive[c]: the Receiver of channel c has not been dropped
    txAlive,          \* txAlive[c]: some Sender of channel c is still alive
    pub,              \* publisher threads: position inside publish_with_priority
    ret,              \* what the latest finished publish call returned
    nPub,             \* number of publish calls started so far
    callLog,          \* history: the arguments of the publish calls, in lock order
    pubLog,           \* history: per topic, the events of the publish calls, in lock order
    subTopic,         \* history: subTopic[c] is the topic channel c was subscribed to
    subStart,         \* history: Len(pubLog[topic]) when channel c was subscribed
    received,         \* history: received[c] is what has been drained from channel c
    event_receiver,   \* GameLoop.event_receiver: channel id (0 when no loop exists)
    pc,               \* position of the thread running GameLoop::run
    accumulated_time, \* GameLoop.accumulated_time (a Duration)
    frame_time,       \* process_frame's local frame_time of the frame in progress
    accAtFrameStart,  \* history: accumulated_time when the frame in progress began
    updatesInFrame,   \* update() calls made by the frame in progress
    renders,          \* render() calls made so far
    result,           \* what run() returned: "None" while running, "Ok" or "Err"
    exitBy,           \* why run() left its loop: "none", "stop" or "closed"
    sentLog,          \* history: events sent on the loop's channel, in order
    lateSend,         \* history: an event was sent after run() had been called
    taken,            \* history: events the loop received, with the receiving function
    running,          \* Engine.running
    adapters,         \* the forwarding threads spawned by Engine::subscribe and GameLoop::run
    engineLog,        \* history: the Engine::start and Engine::stop calls
    errLog,           \* history: the publish_error calls (message, number of the publish call)
    unit,             \* a model::Unit (unit_type, position, movement_points, status)
    lastMove,         \* history: the latest Unit::move_to call and what it returned
    handles,          \* the EventBus handles: the registry each designates, its origin
    subVia,           \* history: subVia[c] is the handle channel c was subscribed through
    pubVia,           \* history: pubVia[n] is the handle publish call n was made through
    map,              \* MapGUI.map: Option<Map>, the empty set or one map
    units,            \* MapGUI.units: HashMap<u32, Unit>, unit id -> position
    selected_position, \* MapGUI.selected_position: Option<MapPosition>
    selected_unit_id, \* MapGUI.selected_unit_id: Option<u32>
    guiLog            \* history: the latest MapGUI call and what it returned

busVars  == <<senders, lock, pub, ret, nPub, callLog, pubLog, subTopic, subStart>>
chanVars == <<chan, rxAlive, txAlive, received>>
loopVars == <<event_receiver, pc, accumulated_time, frame_time, accAtFrameStart,
              updatesInFrame, renders, result, exitBy, sentLog, lateSend, taken>>
\* the state outside the bus, the channel pool and the core loop
facadeVars == <<running, adapters, engineLog>>
unitVars   == <<unit, lastMove>>
cloneVars  == <<handles, subVia, pubVia>>
guiVars    == <<map, units, selected_position, selected_unit_id, guiLog>>
otherVars  == <<cloneVars, guiVars>>
extVars  == <<facadeVars, errLog, unitVars, otherVars>>
vars     == <<busVars, chanVars, loopVars, extVars>>

----------------------------------------------------------------------------
(* Bounds of the model *)

MaxSubs == 2          \* subscribe calls
MaxPublishes == 2     \* publish calls
MaxSent == 4          \* events sent on the game loop's channel
MaxDrains == 2        \* events a subscriber removes from a queue that began full
MaxPending == 2       \* events a tireless producer keeps pending in the loop's queue
MaxCoord == 1         \* largest map coordinate of a unit's position
MaxCost == 3          \* largest movement cost asked of move_to
MaxMoves == 3         \* move_to calls on the unit
MaxHandles == 2       \* handles of the event bus (the owner's and its clones)
MaxGuiCalls == 4      \* calls of MapGUI methods

----------------------------------------------------------------------------
(* events.rs: Priority, GameEvent, PrioritizedEvent *)

Priorities == {"High", "Normal", "Low"}

\* derive(PartialOrd, Ord) on enum Priority: declaration order High, Normal, Low
PriorityOrd(p) == CASE p = "High" -> 0 [] p = "Normal" -> 1 [] p = "Low" -> 2

\* a > b of the derived ordering: the later declared variant is the greater
PriorityGreater(a, b) == PriorityOrd(a) > PriorityOrd(b)

EventKinds == {"Start", "Stop", "Pause", "Resume", "Update", "TurnStart",
               "TurnEnd", "UnitMove", "Log", "Stats"}

\* faulty variant: every kind that is not a control event is Normal
default_priority_NoLow(kind) ==
    IF kind \in {"Start", "Stop", "Pause", "Resume"} THEN "High" ELSE "Normal"
\* GameEvent::default_priority
default_priority(kind) ==
    CASE kind \in {"Start", "Stop", "Pause", "Resume"} -> "High"
      [] kind \in {"Update", "TurnStart", "TurnEnd", "UnitMove"} -> "Normal"
      [] kind \in {"Log", "Stats"} -> "Low"

\* the Option<Priority> arguments of publish_with_priority
PriorityArgs == {"None"} \cup Priorities

\* faulty variant: the explicit priority is ignored
ResolvePriority_DefaultOnly(kind, priority) == default_priority(kind)
\* Some(p) is the priority p, None is "None"
ResolvePriority(kind, priority) ==
    IF priority = "None" THEN default_priority(kind) ELSE priority

\* A GameEvent is its variant and its payload (data distinguishes two events
\* of the same variant); a PrioritizedEvent adds the priority.
GameEvent(kind, data) == [kind |-> kind, data |-> data]
PrioritizedEvent(priority, event) == [priority |-> priority, event |-> event]

\* GameEvent::Log { message, level }
LogEvent(message, level, data) ==
    [kind |-> "Log", data |-> data, message |-> message, level |-> level]

----------------------------------------------------------------------------
(* crossbeam_channel::bounded(100): the channel pool *)

CHANNEL_CAPACITY == 100

NoChannels == << >>
Channels == 1..Len(chan)

\* faulty variant: the event is put at the head of the queue
ChanSend_Lifo(q, e) == <<e>> \o q
\* Sender::send succeeds by appending at the tail
ChanSend(q, e) == Append(q, e)

\* faulty variant: the send error is ignored
SendFails_Never(c) == FALSE
\* Sender::send returns Err(SendError) when the receiver has been dropped
SendFails(c) == ~rxAlive[c]

\* faulty variant: the channel is unbounded, send never waits
SendBlocks_Never(c) == FALSE
\* Sender::send blocks while the queue is full and the receiver is alive
SendBlocks(c) == rxAlive[c] /\ Len(chan[c]) >= CHANNEL_CAPACITY

----------------------------------------------------------------------------
(* events.rs: EventBus *)

Topics == {"engine", "error"}
Publishers == {"p1", "p2"}
\* the (event, priority) arguments the publishers call publish_with_priority with
PubArgs == {<<"Update", "None">>, <<"Update", "High">>}

IdlePub == [pc |-> "idle", topic |-> "none", ev |-> "none", idx |-> 0,
            raced |-> FALSE]

\* faulty variant: the event goes to the subscribers of every topic
Targets_AnyTopic(t) == [c \in 1..Len(chan) |-> c]
\* faulty variant: only the first subscriber of the list is served
Targets_FirstOnly(t) ==
    IF t \in DOMAIN senders THEN SubSeq(senders[t], 1, 1) ELSE << >>
\* senders.get(event_type): the subscriber list of a topic, none when absent
Targets(t) == IF t \in DOMAIN senders THEN senders[t] ELSE << >>

\* faulty variant: the lookup prunes the topic's closed subscribers
SendersAfterGet_Pruned(t) ==
    IF t \in DOMAIN senders
    THEN [senders EXCEPT ![t] = SelectSeq(@, LAMBDA c : rxAlive[c])]
    ELSE senders
\* faulty variant: the lookup inserts an empty list for an unknown topic
SendersAfterGet_Entry(t) ==
    IF t \in DOMAIN senders THEN senders ELSE senders @@ (t :> << >>)
\* publish_with_priority, line 118: HashMap::get leaves the registry as it is
SendersAfterGet(t) == senders

LogOf(t) == IF t \in DOMAIN pubLog THEN pubLog[t] ELSE << >>

\* faulty variant: a new subscriber is handed the topic's past events
NewQueue_Replay(t) == LogOf(t)
\* subscribe, line 93: bounded(100) is a fresh, empty channel
NewQueue(t) == << >>

\* EventBus::subscribe: a new bounded channel, its sender pushed on the
\* topic's list (entry created on first use) under the registry lock.
Subscribe(t) ==
    /\ Len(chan) < MaxSubs
    /\ lock = "free"
    /\ chan' = Append(chan, NewQueue(t))
    /\ rxAlive' = Append(rxAlive, TRUE)
    /\ txAlive' = Append(txAlive, TRUE)
    /\ received' = Append(received, << >>)
    /\ senders' = IF t \in DOMAIN senders
                  THEN [senders EXCEPT ![t] = Append(@, Len(chan) + 1)]
                  ELSE senders @@ (t :> <<Len(chan) + 1>>)
    /\ subTopic' = Append(subTopic, t)
    /\ subStart' = Append(subStart, Len(LogOf(t)))
    /\ UNCHANGED <<lock, pub, ret, nPub, callLog, pubLog, loopVars>>

\* faulty variant: the fan-out does not hold the registry lock
RegistryLocked_Never == FALSE
\* publish_with_priority, line 117: Mutex::lock waits while another thread
\* holds the guard
RegistryLocked == lock # "free"

\* publish_with_priority, lines 114-118: resolve the priority, wrap the event,
\* take the registry lock, look the topic up. With no subscriber list (or an
\* empty one) the call returns Ok(()) at once (line 123).
PublishEvent(p, t, event, priority) ==
    /\ pub[p].pc = "idle"
    /\ ~RegistryLocked
    /\ LET ev == PrioritizedEvent(ResolvePriority(event.kind, priority), event)
       IN /\ pubLog' = IF t \in DOMAIN pubLog
                       THEN [pubLog EXCEPT ![t] = Append(@, ev)]
                       ELSE pubLog @@ (t :> <<ev>>)
          /\ IF Targets(t) = << >>
             THEN /\ ret' = "Ok"
                  /\ UNCHANGED <<pub, lock>>
             ELSE /\ pub' = [pub EXCEPT ![p] = [pc |-> "send", topic |-> t,
                                 ev |-> ev, idx |-> 1, raced |-> FALSE]]
                  /\ lock' = p
                  /\ UNCHANGED ret
    /\ nPub' = nPub + 1
    /\ callLog' = Append(callLog, [topic |-> t, kind |-> event.kind,
                                    priority |-> priority])
    /\ senders' = SendersAfterGet(t)
    /\ UNCHANGED <<subTopic, subStart, chanVars, loopVars>>

\* publish_with_priority with an event of the given variant; its payload is
\* the number of the call
publish_with_priority(p, t, kind, priority) ==
    PublishEvent(p, t, GameEvent(kind, nPub + 1), priority)

\* the messages given to publish_error
Messages == {"disk full", "no route"}

\* faulty variant: publish_error leaves the priority to the event's default
PublishErrorPriority_None == "None"
\* publish_error, line 134: Some(Priority::High)
PublishErrorPriority == "High"

\* EventBus::publish_error(message)
publish_error(p, message) ==
    /\ PublishEvent(p, "error", LogEvent(message, "Error", nPub + 1),
                    PublishErrorPriority)
    /\ errLog' = Append(errLog, [message |-> message, call |-> nPub + 1])
    /\ UNCHANGED <<facadeVars, unitVars, otherVars>>

\* a publish call, as long as the model's bound on publish calls allows one
PublishBegin(p, t, kind, priority) ==
    /\ nPub < MaxPublishes
    /\ publish_with_priority(p, t, kind, priority)

\* publish_with_priority, lines 119-123: one iteration of the for loop.
\* `?` returns the send error at once, dropping the lock guard; after the
\* last sender the guard is dropped and Ok(()) returned.
PublishSend(p) ==
    /\ pub[p].pc = "send"
    /\ LET c == Targets(pub[p].topic)[pub[p].idx]
       IN IF SendFails(c)
          THEN /\ pub' = [pub EXCEPT ![p] = IdlePub]
               /\ ret' = "Err"
               /\ lock' = "free"
               /\ UNCHANGED chan
          ELSE /\ ~SendBlocks(c)
               /\ chan' = [chan EXCEPT ![c] = ChanSend(@, pub[p].ev)]
               /\ IF pub[p].idx < Len(Targets(pub[p].topic))
                  THEN /\ pub' = [pub EXCEPT ![p].idx = @ + 1]
                       /\ UNCHANGED <<lock, ret>>
                  ELSE /\ pub' = [pub EXCEPT ![p] = IdlePub]
                       /\ ret' = "Ok"
                       /\ lock' = "free"
    /\ UNCHANGED <<senders, nPub, callLog, pubLog, subTopic, subStart,
                   rxAlive, txAlive, received, loopVars>>

\* A subscriber drains one event from its receiver (recv / try_recv).
Drain(c) ==
    /\ c \in Channels
    /\ c # event_receiver
    /\ rxAlive[c]
    /\ chan[c] # << >>
    /\ received' = [received EXCEPT ![c] = Append(@, Head(chan[c]))]
    /\ chan' = [chan EXCEPT ![c] = Tail(@)]
    /\ UNCHANGED <<busVars, rxAlive, txAlive, loopVars>>

\* A subscriber drops its receiver: the channel is disconnected for good.
\* A publish call in progress on that topic is marked as raced.
DropReceiver(c) ==
    /\ c \in Channels
    /\ c # event_receiver
    /\ rxAlive[c]
    /\ rxAlive' = [rxAlive EXCEPT ![c] = FALSE]
    /\ pub' = [p \in Publishers |->
                 IF pub[p].pc = "send" /\ pub[p].topic = subTopic[c]
                 THEN [pub[p] EXCEPT !.raced = TRUE] ELSE pub[p]]
    /\ UNCHANGED <<senders, lock, ret, nPub, callLog, pubLog, subTopic, subStart,
                   chan, txAlive, received, loopVars>>

----------------------------------------------------------------------------
(* std::time::Duration: whole seconds and nanoseconds below one second *)

NANOS_PER_SEC == 10^9

Dur(s, n) == [secs |-> s, nanos |-> n]
DurZero == Dur(0, 0)

DurGE(a, b) == a.secs > b.secs \/ (a.secs = b.secs /\ a.nanos >= b.nanos)
DurMin(a, b) == IF DurGE(a, b) THEN b ELSE a

DurAdd(a, b) ==
    IF a.nanos + b.nanos >= NANOS_PER_SEC
    THEN Dur(a.secs + b.secs + 1, a.nanos + b.nanos - NANOS_PER_SEC)
    ELSE Dur(a.secs + b.secs, a.nanos + b.nanos)

\* a - b for a >= b (Duration's -= panics otherwise)
DurSub(a, b) ==
    IF a.nanos >= b.nanos
    THEN Dur(a.secs - b.secs, a.nanos - b.nanos)
    ELSE Dur(a.secs - b.secs - 1, a.nanos + NANOS_PER_SEC - b.nanos)

\* Duration / u32: integer division of seconds, the remainder carried into
\* the nanoseconds, truncating
DurDiv(a, n) ==
    Dur(a.secs \div n,
        (a.nanos \div n) + (((a.secs % n) * NANOS_PER_SEC + (a.nanos % n)) \div n))

\* Duration::from_secs_f64(1.0 / n as f64): the nearest whole nanosecond
DurFromSecsF64Inverse(n) ==
    LET ns == (2 * NANOS_PER_SEC + n) \div (2 * n)
    IN Dur(ns \div NANOS_PER_SEC, ns % NANOS_PER_SEC)

----------------------------------------------------------------------------
(* core.rs: LoopConfig and GameLoop *)

\* LoopConfig::default()
target_fps == 60
max_updates == 60

\* GameLoop::new: frame_duration
frame_duration == DurFromSecsF64Inverse(target_fps)

\* faulty variant: the frame time is added unclamped
ClampedFrameTime_NoClamp(ft) == ft
\* process_frame, line 73: frame_time.min(Duration::from_secs(1) / max_updates)
ClampedFrameTime(ft) == DurMin(ft, DurDiv(Dur(1, 0), max_updates))

\* the wall-clock time process_frame may measure since the previous frame
FrameTimes == {DurZero, Dur(0, 10000000), Dur(0, 50000000), Dur(5, 0)}

\* the events the test-style sender puts on the loop's channel
StopHigh     == PrioritizedEvent("High", GameEvent("Stop", 0))
StopNormal   == PrioritizedEvent("Normal", GameEvent("Stop", 0))
UpdateNormal == PrioritizedEvent("Normal", GameEvent("Update", 0))
LogLow       == PrioritizedEvent("Low", GameEvent("Log", 0))
StopLow      == PrioritizedEvent("Low", GameEvent("Stop", 0))
LoopEvents == {StopHigh, StopNormal, UpdateNormal, LogLow}

\* faulty variant: the priority test is inverted
RunStopGuard_AnyPriorityButHigh(e) == e.event.kind = "Stop" /\ e.priority # "High"
\* run, line 52: GameEvent::Stop if event.priority == Priority::High
RunStopGuard(e) == e.event.kind = "Stop" /\ e.priority = "High"

\* faulty variant: the priority of the Stop is not looked at
UpdateStopGuard_AnyStop(e) == e.event.kind = "Stop"
\* update, line 100: GameEvent::Stop if event.priority == Priority::High
UpdateStopGuard(e) == e.event.kind = "Stop" /\ e.priority = "High"

\* faulty variant: the receive error is propagated with `?`
RunOnDisconnect_Propagate == "Err"
\* run, lines 50 and 63: a failed recv() ends the while-let and run returns Ok(())
RunOnDisconnect == "Ok"

\* faulty variant: a High-priority event overtakes the events queued before it
Recv_HighFirst(q) ==
    LET hi == {i \in 1..Len(q) : q[i].priority = "High"}
        i == IF hi = {} THEN 1 ELSE CHOOSE k \in hi : \A j \in hi : k <= j
    IN [event |-> q[i], rest |-> SubSeq(q, 1, i - 1) \o SubSeq(q, i + 1, Len(q))]
\* Receiver::recv and try_recv on a non-empty queue: the oldest event leaves it
Recv(q) == [event |-> Head(q), rest |-> Tail(q)]

\* the history of receptions; it keeps the first MaxSent of them
Take(by) ==
    IF Len(taken) < MaxSent
    THEN Append(taken, [ev |-> Recv(chan[event_receiver]).event, by |-> by])
    ELSE taken

\* A holder of the channel's Sender sends one event (the tests' sender).
LoopSend(e) ==
    /\ pc # "none"
    /\ txAlive[event_receiver]
    /\ Len(sentLog) < MaxSent
    /\ ~SendFails(event_receiver)
    /\ ~SendBlocks(event_receiver)
    /\ chan' = [chan EXCEPT ![event_receiver] = ChanSend(@, e)]
    /\ sentLog' = Append(sentLog, e)
    /\ lateSend' = (lateSend \/ pc # "new")
    /\ UNCHANGED <<busVars, rxAlive, txAlive, received, event_receiver, pc,
                   accumulated_time, frame_time, accAtFrameStart, updatesInFrame, renders,
                   result, exitBy, taken>>

\* Every Sender of the loop's channel is dropped.
LoopDropSender ==
    /\ pc # "none"
    /\ txAlive[event_receiver]
    /\ txAlive' = [txAlive EXCEPT ![event_receiver] = FALSE]
    /\ UNCHANGED <<busVars, chan, rxAlive, received, loopVars>>

\* run, lines 47-48: run() is called
RunStart ==
    /\ pc = "new"
    /\ pc' = "recv"
    /\ UNCHANGED <<busVars, chanVars, event_receiver, accumulated_time, frame_time,
                   accAtFrameStart, updatesInFrame, renders, result, exitBy, sentLog, lateSend, taken>>

\* run, lines 50-60: the blocking recv() returned an event
RunRecv ==
    /\ pc = "recv"
    /\ chan[event_receiver] # << >>
    /\ chan' = [chan EXCEPT ![event_receiver] = Recv(@).rest]
    /\ taken' = Take("run")
    /\ IF RunStopGuard(Recv(chan[event_receiver]).event)
       THEN /\ pc' = "done"
            /\ result' = "Ok"
            /\ exitBy' = "stop"
       ELSE /\ pc' = "frame"
            /\ UNCHANGED <<result, exitBy>>
    /\ UNCHANGED <<busVars, rxAlive, txAlive, received, event_receiver,
                   accumulated_time, frame_time, accAtFrameStart, updatesInFrame, renders,
                   sentLog, lateSend>>

\* run, lines 50 and 63: recv() fails (queue empty, every sender dropped)
RunRecvDisconnected ==
    /\ pc = "recv"
    /\ chan[event_receiver] = << >>
    /\ ~txAlive[event_receiver]
    /\ pc' = "done"
    /\ result' = RunOnDisconnect
    /\ exitBy' = "closed"
    /\ UNCHANGED <<busVars, chanVars, event_receiver, accumulated_time, frame_time,
                   accAtFrameStart, updatesInFrame, renders, sentLog, lateSend, taken>>

\* faulty variant: the update loop is skipped, render() follows at once
AfterAccumulate_SkipUpdates(acc) == "render"
\* process_frame, lines 76-82: the while condition, entering update() or render()
AfterAccumulate(acc) == IF DurGE(acc, frame_duration) THEN "update" ELSE "render"

\* process_frame, lines 68-76: measure frame_time (Instant::now() minus
\* last_update, any non-negative time), add its clamped value
ProcessFrame(ft) ==
    /\ pc = "frame"
    /\ frame_time' = ft
    /\ accAtFrameStart' = accumulated_time
    /\ accumulated_time' = DurAdd(accumulated_time, ClampedFrameTime(ft))
    /\ pc' = AfterAccumulate(accumulated_time')
    /\ updatesInFrame' = IF pc' = "update" THEN 1 ELSE 0
    /\ UNCHANGED <<busVars, chanVars, event_receiver, renders, result, exitBy,
                   sentLog, lateSend, taken>>

\* faulty variant: two steps are subtracted for one update() call
UpdateReturns_SubtractsTwice ==
    /\ accumulated_time' = DurSub(DurSub(accumulated_time, frame_duration), frame_duration)
    /\ pc' = AfterAccumulate(accumulated_time')
    /\ updatesInFrame' = IF pc' = "update" THEN updatesInFrame + 1 ELSE updatesInFrame
\* update() returns Ok(()); process_frame, lines 77-78, subtracts one step
\* and tests the while condition again
UpdateReturns ==
    /\ accumulated_time' = DurSub(accumulated_time, frame_duration)
    /\ pc' = AfterAccumulate(accumulated_time')
    /\ updatesInFrame' = IF pc' = "update" THEN updatesInFrame + 1 ELSE updatesInFrame

\* update, lines 90-118: one try_recv() of the drain loop
Update ==
    /\ pc = "update"
    /\ IF chan[event_receiver] # << >>
       THEN /\ chan' = [chan EXCEPT ![event_receiver] = Recv(@).rest]
            /\ taken' = Take("update")
            /\ IF UpdateStopGuard(Recv(chan[event_receiver]).event)
               THEN UpdateReturns
               ELSE UNCHANGED <<pc, accumulated_time, updatesInFrame>>
       ELSE /\ UpdateReturns
            /\ UNCHANGED <<chan, taken>>
    /\ UNCHANGED <<busVars, rxAlive, txAlive, received, event_receiver, frame_time,
                   accAtFrameStart, renders, result, exitBy, sentLog, lateSend>>

\* process_frame, lines 82-84: render(), which always returns Ok(()), then
\* back to run's recv()
Render ==
    /\ pc = "render"
    /\ renders' = renders + 1
    /\ pc' = "recv"
    /\ frame_time' = DurZero
    /\ accAtFrameStart' = DurZero
    /\ updatesInFrame' = 0
    /\ UNCHANGED <<busVars, chanVars, event_receiver, accumulated_time, result,
                   exitBy, sentLog, lateSend, taken>>

\* the steps of the thread that runs GameLoop::run; they touch the loop and
\* its channel only
LoopThread ==
    \/ RunStart /\ UNCHANGED extVars
    \/ RunRecv /\ UNCHANGED extVars
    \/ RunRecvDisconnected /\ UNCHANGED extVars
    \/ \E ft \in FrameTimes : ProcessFrame(ft) /\ UNCHANGED extVars
    \/ Update /\ UNCHANGED extVars
    \/ Render /\ UNCHANGED extVars

----------------------------------------------------------------------------
(* Specifications *)

\* no unit of the game model exists
NoUnit == [unit_type |-> "none", position |-> <<0, 0>>, health |-> 0,
           status |-> "none", movement_points |-> 0]
NoMove == [n |-> 0, position |-> <<0, 0>>, cost |-> 0, ret |-> FALSE]

\* no handle of the bus but the owner's is modelled
NoClones ==
    /\ handles = << >>
    /\ subVia = << >>
    /\ pubVia = << >>

\* no MapGUI exists
NoGui ==
    /\ map = {}
    /\ units = << >>
    /\ selected_position = {}
    /\ selected_unit_id = {}
    /\ guiLog = [n |-> 0, op |-> "none", ret |-> "None"]

\* no facade, no forwarding thread, no unit
ExtInit ==
    /\ running = FALSE
    /\ adapters = << >>
    /\ engineLog = << >>
    /\ errLog = << >>
    /\ unit = NoUnit
    /\ lastMove = NoMove

NoLoop ==
    /\ event_receiver = 0
    /\ pc = "none"
    /\ accumulated_time = DurZero
    /\ frame_time = DurZero
    /\ accAtFrameStart = DurZero
    /\ updatesInFrame = 0
    /\ renders = 0
    /\ result = "None"
    /\ exitBy = "none"
    /\ sentLog = << >>
    /\ lateSend = FALSE
    /\ taken = << >>

\* EventBus::new(): an empty registry
BusInit ==
    /\ senders = << >>
    /\ lock = "free"
    /\ pub = [p \in Publishers |-> IdlePub]
    /\ ret = "None"
    /\ nPub = 0
    /\ callLog = << >>
    /\ pubLog = << >>
    /\ subTopic = << >>
    /\ subStart = << >>

Init ==
    /\ BusInit
    /\ chan = NoChannels
    /\ rxAlive = << >>
    /\ txAlive = << >>
    /\ received = << >>
    /\ NoLoop
    /\ ExtInit
    /\ NoClones
    /\ NoGui

Next ==
    \/ \E t \in Topics : Subscribe(t) /\ UNCHANGED extVars
    \/ \E p \in Publishers, t \in Topics, a \in PubArgs :
          PublishBegin(p, t, a[1], a[2]) /\ UNCHANGED extVars
    \/ \E p \in Publishers : PublishSend(p) /\ UNCHANGED extVars
    \/ \E c \in Channels : Drain(c) /\ UNCHANGED extVars
    \/ \E c \in Channels : DropReceiver(c) /\ UNCHANGED extVars

Spec == Init /\ [][Next]_vars

\* GameLoop::new(config, receiver) on the receiving end of a fresh
\* bounded(100) channel, as the tests of core.rs build it
LoopInit ==
    /\ BusInit
    /\ chan = << << >> >>
    /\ rxAlive = <<TRUE>>
    /\ txAlive = <<TRUE>>
    /\ received = << << >> >>
    /\ event_receiver = 1
    /\ pc = "new"
    /\ accumulated_time = DurZero
    /\ frame_time = DurZero
    /\ accAtFrameStart = DurZero
    /\ updatesInFrame = 0
    /\ renders = 0
    /\ result = "None"
    /\ exitBy = "none"
    /\ sentLog = << >>
    /\ lateSend = FALSE
    /\ taken = << >>
    /\ ExtInit
    /\ NoClones
    /\ NoGui

LoopNext ==
    \/ \E e \in LoopEvents : LoopSend(e) /\ UNCHANGED extVars
    \/ LoopDropSender /\ UNCHANGED extVars
    \/ LoopThread

LoopSpec == LoopInit /\ [][LoopNext]_vars

\* The thread that runs GameLoop::run is scheduled whenever it can step.
FairLoopSpec == LoopSpec /\ WF_vars(LoopThread)

----------------------------------------------------------------------------
(* lib.rs: Engine and the wrapper GameLoop *)

Adapters == 1..Len(adapters)

\* faulty variant: stop() leaves the flag as it is
RunningAfterStop_Unchanged == running
\* Engine::stop, line 70: self.running = false
RunningAfterStop == FALSE

\* Engine::subscribe, line 41: the thread sends the event without its priority
PlainOf(e) == e.event

\* faulty variant: the thread tags every event Normal
Retagged_Normal(e) == PrioritizedEvent("Normal", e)
\* GameLoop::run, lines 104-109: the thread tags the event's default priority
Retagged(e) == PrioritizedEvent(default_priority(e.kind), e)

\* what a forwarding thread of the given kind sends for the event e it received
Converted(kind, e) == IF kind = "plain" THEN PlainOf(e) ELSE Retagged(e)

\* the receivers held by the application (not by a forwarding thread or the loop)
UserReceivers ==
    {c \in Channels : c # event_receiver /\ \A a \in Adapters : adapters[a].in # c}

\* Engine::subscribe, line 33: the subscription on the bus
EngineSubscribeBus(t) ==
    /\ Subscribe(t)
    /\ adapters' = Append(adapters, [kind |-> "plain", in |-> Len(chan) + 1,
                                     out |-> 0, pc |-> "new", ev |-> "none"])
    /\ UNCHANGED <<running, engineLog, errLog, unitVars, otherVars>>

\* Engine::subscribe, lines 36-47: the plain bounded(100) channel and the
\* forwarding thread
EngineSubscribeSpawn(a) ==
    /\ adapters[a].pc = "new"
    /\ chan' = Append(chan, << >>)
    /\ rxAlive' = Append(rxAlive, TRUE)
    /\ txAlive' = Append(txAlive, TRUE)
    /\ received' = Append(received, << >>)
    /\ subTopic' = Append(subTopic, "none")
    /\ subStart' = Append(subStart, 0)
    /\ adapters' = [adapters EXCEPT ![a].out = Len(chan) + 1, ![a].pc = "recv"]
    /\ UNCHANGED <<senders, lock, pub, ret, nPub, callLog, pubLog, loopVars,
                   running, engineLog, errLog, unitVars, otherVars>>

\* a forwarding thread, lines 40 and 103: recv() returned an event
AdapterRecv(a) ==
    /\ adapters[a].pc = "recv"
    /\ Drain(adapters[a].in)
    /\ adapters' = [adapters EXCEPT
                        ![a].pc = "send",
                        ![a].ev = Converted(adapters[a].kind,
                                            Head(chan[adapters[a].in]))]
    /\ UNCHANGED <<running, engineLog, errLog, unitVars, otherVars>>

\* a forwarding thread, lines 41 and 105-110: send() put the event on the
\* outgoing channel
AdapterSend(a) ==
    /\ adapters[a].pc = "send"
    /\ ~SendFails(adapters[a].out)
    /\ ~SendBlocks(adapters[a].out)
    /\ chan' = [chan EXCEPT ![adapters[a].out] = ChanSend(@, adapters[a].ev)]
    /\ adapters' = [adapters EXCEPT ![a].pc = "recv", ![a].ev = "none"]
    /\ UNCHANGED <<busVars, rxAlive, txAlive, received, loopVars,
                   running, engineLog, errLog, unitVars, otherVars>>

\* faulty variant: the ending thread leaves the subscription's receiver alive
ExitDropsInput_Keeps(a) == UNCHANGED <<busVars, chanVars, loopVars>>
\* Engine::subscribe, line 45: the closure ends, prioritized_receiver (moved
\* into it) is dropped
ExitDropsInput(a) == DropReceiver(adapters[a].in)

\* the thread of Engine::subscribe, lines 41-43: send() failed, the thread
\* ends and drops the subscription's receiver
AdapterSendFails(a) ==
    /\ adapters[a].kind = "plain"
    /\ adapters[a].pc = "send"
    /\ SendFails(adapters[a].out)
    /\ ExitDropsInput(a)
    /\ adapters' = [adapters EXCEPT ![a].pc = "done", ![a].ev = "none"]
    /\ UNCHANGED <<running, engineLog, errLog, unitVars, otherVars>>

\* Engine::start
EngineStart ==
    /\ publish_with_priority("p1", "engine", "Start", "None")
    /\ running' = TRUE
    /\ engineLog' = Append(engineLog, [op |-> "start", call |-> nPub + 1])
    /\ UNCHANGED <<adapters, errLog, unitVars, otherVars>>

\* Engine::stop
EngineStop ==
    /\ publish_with_priority("p1", "engine", "Stop", "None")
    /\ running' = RunningAfterStop
    /\ engineLog' = Append(engineLog, [op |-> "stop", call |-> nPub + 1])
    /\ UNCHANGED <<adapters, errLog, unitVars, otherVars>>

\* Engine::publish
EnginePublish(t, kind) ==
    /\ PublishBegin("p1", t, kind, "None")
    /\ UNCHANGED extVars

StopCalled == \E k \in 1..Len(engineLog) : engineLog[k].op = "stop"

\* The facade with one publishing thread and one plain subscription on
\* "engine", which a direct subscriber of the bus may precede: subscriptions,
\* start, stop, publish, receivers drained and dropped.
FacadeNext ==
    \/ Adapters = {} /\ EngineSubscribeBus("engine")
    \/ \E a \in Adapters : EngineSubscribeSpawn(a)
    \/ chan = << >> /\ Subscribe("engine") /\ UNCHANGED extVars
    \/ nPub < MaxPublishes /\ EngineStart
    \/ nPub < MaxPublishes /\ EngineStop
    \/ \E t \in Topics : EnginePublish(t, "Update")
    \/ PublishSend("p1") /\ UNCHANGED extVars
    \/ \E a \in Adapters : AdapterRecv(a)
    \/ \E a \in Adapters : AdapterSend(a)
    \/ \E a \in Adapters : AdapterSendFails(a)
    \/ \E c \in UserReceivers : Drain(c) /\ UNCHANGED extVars
    \/ \E c \in UserReceivers : DropReceiver(c) /\ UNCHANGED extVars

\* Engine::new()
FacadeSpec == Init /\ [][FacadeNext]_vars

\* the thread of GameLoop::run, lines 105-113: send() failed, the thread ends;
\* its receiver is a clone, the wrapper keeps the original
RetagSendFails(a) ==
    /\ adapters[a].kind = "retag"
    /\ adapters[a].pc = "send"
    /\ SendFails(adapters[a].out)
    /\ adapters' = [adapters EXCEPT ![a].pc = "done", ![a].ev = "none"]
    /\ UNCHANGED <<busVars, chanVars, loopVars, running, engineLog, errLog, unitVars, otherVars>>

\* GameLoop::run, lines 119-120: the core run() has returned, the wrapper
\* returns its result and drops the core loop with its receiver
WrapperReturn ==
    /\ pc = "done"
    /\ pc' = "returned"
    /\ rxAlive' = [rxAlive EXCEPT ![event_receiver] = FALSE]
    /\ UNCHANGED <<busVars, chan, txAlive, received, event_receiver,
                   accumulated_time, frame_time, accAtFrameStart, updatesInFrame,
                   renders, result, exitBy, sentLog, lateSend, taken, extVars>>

\* The state after Engine::new(), Engine::subscribe("engine") (bus queue 1,
\* plain channel 2 and its thread), GameLoop::new on the plain receiver and
\* lines 98-118 of the wrapper's run(): channel 3, the re-tagging thread and
\* the core loop on channel 3, its run() about to be called.
EngineLoopInit ==
    /\ senders = ("engine" :> <<1>>)
    /\ lock = "free"
    /\ pub = [p \in Publishers |-> IdlePub]
    /\ ret = "None"
    /\ nPub = 0
    /\ callLog = << >>
    /\ pubLog = << >>
    /\ subTopic = <<"engine", "none", "none">>
    /\ subStart = <<0, 0, 0>>
    /\ chan = << << >>, << >>, << >> >>
    /\ rxAlive = <<TRUE, TRUE, TRUE>>
    /\ txAlive = <<TRUE, TRUE, TRUE>>
    /\ received = << << >>, << >>, << >> >>
    /\ event_receiver = 3
    /\ pc = "new"
    /\ accumulated_time = DurZero
    /\ frame_time = DurZero
    /\ accAtFrameStart = DurZero
    /\ updatesInFrame = 0
    /\ renders = 0
    /\ result = "None"
    /\ exitBy = "none"
    /\ sentLog = << >>
    /\ lateSend = FALSE
    /\ taken = << >>
    /\ running = FALSE
    /\ adapters = <<[kind |-> "plain", in |-> 1, out |-> 2, pc |-> "recv", ev |-> "none"],
                    [kind |-> "retag", in |-> 2, out |-> 3, pc |-> "recv", ev |-> "none"]>>
    /\ engineLog = << >>
    /\ errLog = << >>
    /\ unit = NoUnit
    /\ lastMove = NoMove
    /\ NoClones
    /\ NoGui

\* the application: start() once, publish, stop() once
EngineCalls ==
    \/ engineLog = << >> /\ nPub < MaxPublishes /\ EngineStart
    \/ EnginePublish("engine", "Update")
    \/ ~StopCalled /\ EngineStop

\* the thread inside a publish call
EnginePublishThread == PublishSend("p1") /\ UNCHANGED extVars

\* the steps of one forwarding thread
ForwardingThread(a) ==
    \/ AdapterRecv(a)
    \/ AdapterSend(a)
    \/ RetagSendFails(a)

\* the thread that called the wrapper's run()
EngineLoopThread ==
    \/ RunStart /\ UNCHANGED extVars
    \/ RunRecv /\ UNCHANGED extVars
    \/ \E ft \in FrameTimes : ProcessFrame(ft) /\ UNCHANGED extVars
    \/ Update /\ UNCHANGED extVars
    \/ Render /\ UNCHANGED extVars
    \/ WrapperReturn

EngineLoopNext ==
    \/ EngineCalls
    \/ EnginePublishThread
    \/ \E a \in 1..2 : ForwardingThread(a)
    \/ EngineLoopThread

\* Every thread is scheduled whenever it can step; the application calls
\* start(), publish() and stop() when it likes.
EngineLoopSpec ==
    /\ EngineLoopInit
    /\ [][EngineLoopNext]_vars
    /\ WF_vars(EnginePublishThread)
    /\ \A a \in 1..2 : WF_vars(ForwardingThread(a))
    /\ WF_vars(EngineLoopThread)

\* the kinds and Option<Priority> arguments given to publish_with_priority
\* on the topic the wrapper GameLoop listens to
RetagArgs == {"Stop", "Update", "Log"} \X PriorityArgs

\* The facade path with publishers that choose the priority: the event bus
\* handle of Engine::event_bus() is used for publish_with_priority.
RetagNext ==
    \/ \E a \in RetagArgs :
          PublishBegin("p1", "engine", a[1], a[2]) /\ UNCHANGED extVars
    \/ EnginePublishThread
    \/ \E a \in 1..2 : ForwardingThread(a)
    \/ EngineLoopThread

RetagSpec == EngineLoopInit /\ [][RetagNext]_vars

----------------------------------------------------------------------------
(* events.rs: the EventBus handle, #[derive(Clone)] over Arc<Mutex<..>> *)

Handles == 1..Len(handles)

\* the registry allocated by EventBus::new(); its contents are `senders`
EngineRegistry == 1

\* faulty variant: a clone gets a registry of its own
CloneRegistry_Fresh(h) == Len(handles) + 1
\* derive(Clone), line 81: Arc::clone designates the allocation of the original
CloneRegistry(h) == handles[h].reg

\* the topic registry seen through handle h; an allocation other than the one
\* of EventBus::new() has never been subscribed to
RegistryOf(h) == IF handles[h].reg = EngineRegistry THEN senders ELSE << >>

\* EventBus::clone, and Engine::event_bus (lib.rs:27-29) for h = 1
EventBusClone(h) ==
    /\ Len(handles) < MaxHandles
    /\ handles' = Append(handles, [reg |-> CloneRegistry(h), from |-> h])
    /\ UNCHANGED <<busVars, chanVars, loopVars, facadeVars, errLog, unitVars,
                   subVia, pubVia, guiVars>>

\* subscribe called on handle h
SubscribeVia(h, t) ==
    /\ handles[h].reg = EngineRegistry
    /\ Subscribe(t)
    /\ subVia' = Append(subVia, h)
    /\ UNCHANGED <<facadeVars, errLog, unitVars, handles, pubVia, guiVars>>

\* publish called on handle h
PublishVia(p, h, t, kind) ==
    /\ handles[h].reg = EngineRegistry
    /\ PublishBegin(p, t, kind, "None")
    /\ pubVia' = Append(pubVia, h)
    /\ UNCHANGED <<facadeVars, errLog, unitVars, handles, subVia, guiVars>>

\* EventBus::new(): one handle, an empty registry
CloneInit ==
    /\ BusInit
    /\ chan = NoChannels
    /\ rxAlive = << >>
    /\ txAlive = << >>
    /\ received = << >>
    /\ NoLoop
    /\ ExtInit
    /\ NoGui
    /\ handles = <<[reg |-> EngineRegistry, from |-> 0]>>
    /\ subVia = << >>
    /\ pubVia = << >>

CloneNext ==
    \/ \E h \in Handles : EventBusClone(h)
    \/ \E h \in Handles : SubscribeVia(h, "engine")
    \/ \E h \in Handles : PublishVia("p1", h, "engine", "Update")
    \/ PublishSend("p1") /\ UNCHANGED extVars
    \/ \E c \in Channels : Drain(c) /\ UNCHANGED extVars

CloneSpec == CloneInit /\ [][CloneNext]_vars

----------------------------------------------------------------------------
(* gui/map_gui.rs: MapGUI. An Option is the empty set or a one-element set. *)
(* Of a Unit the table keeps the position; highlight_positions, which only *)
(* clear_selection touches here, stays empty.                              *)

\* the topic of every event MapGUI publishes (lines 212, 223, 234)
GuiTopic == "map_gui"

UnitIds == {1, 2}

\* the positions given to MapGUI: two cells of the map and one outside it
GuiPositions == {<<0, 0>>, <<MaxCoord, MaxCoord>>, <<MaxCoord + 1, MaxCoord + 1>>}

\* create_test_map style: Map::new(width, height) covering 0..MaxCoord
TheMap == [width |-> MaxCoord + 1, height |-> MaxCoord + 1]

\* Map::is_valid_position
is_valid_position(m, position) ==
    /\ position[1] >= 0 /\ position[2] >= 0
    /\ position[1] < m.width /\ position[2] < m.height

\* the event of the i-th publish call of a handler that publishes msgs
GuiEvent(msgs, i) ==
    PrioritizedEvent(ResolvePriority("Log", "None"),
                     LogEvent(msgs[i], "Info", nPub + i))

\* publish_with_priority, lines 119-123, run to its end on the queues q:
\* the sends in list order up to the first that fails
RECURSIVE SendAll(_, _, _)
SendAll(q, targets, ev) ==
    IF targets = << >> THEN [chan |-> q, ok |-> TRUE]
    ELSE IF SendFails(Head(targets)) THEN [chan |-> q, ok |-> FALSE]
    ELSE SendAll([q EXCEPT ![Head(targets)] = ChanSend(@, ev)], Tail(targets), ev)

\* the publish calls of one handler from the i-th on, each run to its end;
\* with `?` (select_position) the first Err ends the handler
RECURSIVE PublishSeq(_, _, _)
PublishSeq(q, msgs, i) ==
    IF i > Len(msgs) THEN [chan |-> q, made |-> Len(msgs), ok |-> TRUE]
    ELSE LET sent == SendAll(q, Targets(GuiTopic), GuiEvent(msgs, i))
         IN IF sent.ok THEN PublishSeq(sent.chan, msgs, i + 1)
            ELSE [chan |-> sent.chan, made |-> i, ok |-> FALSE]

\* the effect on the bus of a handler that publishes msgs; r is its
\* PublishSeq. No other thread publishes, so the registry lock is free, and
\* no queue is full.
GuiPublish(msgs, r) ==
    /\ \A c \in Channels : ~SendBlocks(c)
    /\ chan' = r.chan
    /\ nPub' = nPub + r.made
    /\ callLog' = callLog \o [i \in 1..r.made |->
                                [topic |-> GuiTopic, kind |-> "Log", priority |-> "None"]]
    /\ pubLog' = IF r.made = 0 THEN pubLog
                 ELSE LET new == [i \in 1..r.made |-> GuiEvent(msgs, i)]
                      IN IF GuiTopic \in DOMAIN pubLog
                         THEN [pubLog EXCEPT ![GuiTopic] = @ \o new]
                         ELSE pubLog @@ (GuiTopic :> new)
    /\ ret' = IF r.made = 0 THEN ret ELSE IF r.ok THEN "Ok" ELSE "Err"
    /\ UNCHANGED <<senders, lock, pub, subTopic, subStart, rxAlive, txAlive,
                   received, loopVars, facadeVars, errLog, unitVars, cloneVars>>

\* publish_map_updated
MapUpdated == << <<"map updated">> >>

GuiCall(op, r) == guiLog' = [n |-> guiLog.n + 1, op |-> op, ret |-> r]

\* MapGUI::set_map
set_map ==
    /\ map' = {TheMap}
    /\ GuiPublish(MapUpdated, PublishSeq(chan, MapUpdated, 1))
    /\ GuiCall("set_map", "unit")
    /\ UNCHANGED <<units, selected_position, selected_unit_id>>

\* MapGUI::add_unit
add_unit(id, position) ==
    /\ units' = [u \in DOMAIN units \cup {id} |->
                    IF u = id THEN position ELSE units[u]]
    /\ GuiPublish(MapUpdated, PublishSeq(chan, MapUpdated, 1))
    /\ GuiCall("add_unit", "unit")
    /\ UNCHANGED <<map, selected_position, selected_unit_id>>

\* MapGUI::update_unit
update_unit(id, position) ==
    IF id \in DOMAIN units
    THEN /\ units' = [units EXCEPT ![id] = position]
         /\ GuiPublish(MapUpdated, PublishSeq(chan, MapUpdated, 1))
         /\ GuiCall("update_unit", "true")
         /\ UNCHANGED <<map, selected_position, selected_unit_id>>
    ELSE /\ GuiCall("update_unit", "false")
         /\ UNCHANGED <<busVars, chanVars, loopVars, facadeVars, errLog, unitVars,
                        cloneVars, map, units, selected_position, selected_unit_id>>

\* faulty variant: removing the selected unit leaves it selected
SelectionAfterRemove_Kept(id) == selected_unit_id
\* remove_unit, lines 89-93
SelectionAfterRemove(id) == IF selected_unit_id = {id} THEN {} ELSE selected_unit_id

\* MapGUI::remove_unit
remove_unit(id) ==
    IF id \in DOMAIN units
    THEN /\ units' = [u \in DOMAIN units \ {id} |-> units[u]]
         /\ selected_unit_id' = SelectionAfterRemove(id)
         /\ GuiPublish(MapUpdated, PublishSeq(chan, MapUpdated, 1))
         /\ GuiCall("remove_unit", "true")
         /\ UNCHANGED <<map, selected_position>>
    ELSE /\ GuiCall("remove_unit", "false")
         /\ UNCHANGED <<busVars, chanVars, loopVars, facadeVars, errLog, unitVars,
                        cloneVars, map, units, selected_position, selected_unit_id>>

\* get_unit_at_position: the ids find() may return; the iteration order of
\* the HashMap decides between several units on one cell
UnitsAt(position) == {u \in DOMAIN units : units[u] = position}

\* MapGUI::select_position, when get_unit_at_position gives `found`
SelectPositionFound(position, found) ==
    LET msgs == (IF found = {} THEN << >>
                 ELSE <<<<"unit selected", CHOOSE u \in found : TRUE>>>>)
                    \o <<<<"position selected", position>>>> \o MapUpdated
        r == PublishSeq(chan, msgs, 1)
    IN /\ selected_position' = {position}
       /\ selected_unit_id' = found
       /\ GuiPublish(msgs, r)
       /\ GuiCall("select_position", IF r.ok THEN "Ok" ELSE "Err")
       /\ UNCHANGED <<map, units>>

\* MapGUI::select_position
select_position(position) ==
    IF map # {} /\ \A m \in map : is_valid_position(m, position)
    THEN IF UnitsAt(position) = {}
         THEN SelectPositionFound(position, {})
         ELSE \E u \in UnitsAt(position) : SelectPositionFound(position, {u})
    ELSE /\ GuiCall("select_position", "Err")
         /\ UNCHANGED <<busVars, chanVars, loopVars, facadeVars, errLog, unitVars,
                        cloneVars, map, units, selected_position, selected_unit_id>>

\* MapGUI::clear_selection
clear_selection ==
    /\ selected_position' = {}
    /\ selected_unit_id' = {}
    /\ GuiPublish(MapUpdated, PublishSeq(chan, MapUpdated, 1))
    /\ GuiCall("clear_selection", "unit")
    /\ UNCHANGED <<map, units>>

\* EventBus::new() and MapGUI::new(event_bus)
GuiInit ==
    /\ BusInit
    /\ chan = NoChannels
    /\ rxAlive = << >>
    /\ txAlive = << >>
    /\ received = << >>
    /\ NoLoop
    /\ ExtInit
    /\ NoClones
    /\ NoGui

\* a call of a MapGUI method, as long as the bound on calls allows one
CanCall == guiLog.n < MaxGuiCalls

\* A MapGUI and at most one subscriber of its topic, which may drop its
\* receiver.
GuiNext ==
    \/ CanCall /\ set_map
    \/ \E id \in UnitIds, position \in GuiPositions : CanCall /\ add_unit(id, position)
    \/ \E id \in UnitIds, position \in GuiPositions : CanCall /\ update_unit(id, position)
    \/ \E id \in UnitIds : CanCall /\ remove_unit(id)
    \/ \E position \in GuiPositions : CanCall /\ select_position(position)
    \/ CanCall /\ clear_selection
    \/ chan = << >> /\ Subscribe(GuiTopic) /\ UNCHANGED extVars
    \/ \E c \in Channels : DropReceiver(c) /\ UNCHANGED extVars

GuiSpec == GuiInit /\ [][GuiNext]_vars

----------------------------------------------------------------------------
(* model/src/unit.rs: Unit *)

UnitTypes == {"Infantry", "Cavalry", "Ranged", "Siege", "Support"}

\* UnitType::base_movement
base_movement(unit_type) ==
    CASE unit_type = "Infantry" -> 3
      [] unit_type = "Cavalry" -> 5
      [] unit_type = "Ranged" -> 2
      [] unit_type = "Siege" -> 1
      [] unit_type = "Support" -> 2

Positions == (0..MaxCoord) \X (0..MaxCoord)
Costs == 0..MaxCost
\* the damage dealt by one hit
DamageAmounts == {40}

\* Unit::new
NewUnit(unit_type, position) ==
    [unit_type |-> unit_type, position |-> position, health |-> 100,
     status |-> "Idle", movement_points |-> base_movement(unit_type)]

\* faulty variant: a move that would use up the last points is refused
CanMove_Strict(movement_points, cost) == movement_points > cost
\* move_to, line 123: if self.movement_points >= cost
CanMove(movement_points, cost) == movement_points >= cost

\* Unit::move_to(new_position, cost)
move_to(new_position, cost) ==
    /\ unit # NoUnit
    /\ lastMove.n < MaxMoves
    /\ IF CanMove(unit.movement_points, cost)
       THEN /\ unit' = [unit EXCEPT
                          !.position = new_position,
                          !.movement_points = unit.movement_points - cost,
                          !.status = IF unit.movement_points - cost = 0
                                     THEN "Exhausted" ELSE "Moving"]
            /\ lastMove' = [n |-> lastMove.n + 1, position |-> new_position,
                            cost |-> cost, ret |-> TRUE]
       ELSE /\ unit' = unit
            /\ lastMove' = [n |-> lastMove.n + 1, position |-> new_position,
                            cost |-> cost, ret |-> FALSE]
    /\ UNCHANGED <<busVars, chanVars, loopVars, facadeVars, errLog, otherVars>>

\* Unit::reset_for_new_turn
reset_for_new_turn ==
    /\ unit # NoUnit
    /\ unit' = [unit EXCEPT
                  !.movement_points = base_movement(unit.unit_type),
                  !.status = IF unit.status = "Exhausted" THEN "Idle" ELSE unit.status]
    /\ UNCHANGED <<busVars, chanVars, loopVars, facadeVars, errLog, otherVars, lastMove>>

\* Unit::take_damage(amount)
take_damage(amount) ==
    /\ unit # NoUnit
    /\ LET actual_damage == IF amount < unit.health THEN amount ELSE unit.health
           health == unit.health - actual_damage
       IN unit' = [unit EXCEPT
                     !.health = health,
                     !.status = IF health # 0 /\ health < 30 THEN "Wounded"
                                ELSE unit.status]
    /\ UNCHANGED <<busVars, chanVars, loopVars, facadeVars, errLog, otherVars, lastMove>>

\* a freshly created unit of any type at any position
UnitInit ==
    /\ BusInit
    /\ chan = NoChannels
    /\ rxAlive = << >>
    /\ txAlive = << >>
    /\ received = << >>
    /\ NoLoop
    /\ running = FALSE
    /\ adapters = << >>
    /\ engineLog = << >>
    /\ errLog = << >>
    /\ unit \in {NewUnit(ut, pos) : ut \in UnitTypes, pos \in Positions}
    /\ lastMove = NoMove
    /\ NoClones
    /\ NoGui

UnitNext ==
    \/ \E pos \in Positions, cost \in Costs : move_to(pos, cost)
    \/ reset_for_new_turn
    \/ \E amount \in DamageAmounts : take_damage(amount)

UnitSpec == UnitInit /\ [][UnitNext]_vars

----------------------------------------------------------------------------
\* The bus with publish_error calls next to plain publish calls of a Log event.
ErrorNext ==
    \/ \E t \in Topics : Subscribe(t) /\ UNCHANGED extVars
    \/ \E p \in Publishers, m \in Messages :
          nPub < MaxPublishes /\ publish_error(p, m)
    \/ \E p \in Publishers, t \in Topics :
          PublishBegin(p, t, "Log", "None") /\ UNCHANGED extVars
    \/ \E p \in Publishers : PublishSend(p) /\ UNCHANGED extVars
    \/ \E c \in Channels : Drain(c) /\ UNCHANGED extVars

ErrorSpec == Init /\ [][ErrorNext]_vars

\* the events of the senders that try Stop events of every priority
StopEvents == {StopHigh, StopNormal, StopLow, UpdateNormal}

StopNext ==
    \/ \E e \in StopEvents : LoopSend(e) /\ UNCHANGED extVars
    \/ LoopDropSender /\ UNCHANGED extVars
    \/ LoopThread

StopSpec == LoopInit /\ [][StopNext]_vars

\* A producer that never tires: it sends an Update whenever fewer than
\* MaxPending events are pending (the histories keep its first sends only).
BurstSend ==
    /\ txAlive[event_receiver]
    /\ Len(chan[event_receiver]) < MaxPending
    /\ ~SendFails(event_receiver)
    /\ ~SendBlocks(event_receiver)
    /\ chan' = [chan EXCEPT ![event_receiver] = ChanSend(@, UpdateNormal)]
    /\ sentLog' = IF Len(sentLog) < MaxSent THEN Append(sentLog, UpdateNormal) ELSE sentLog
    /\ lateSend' = (lateSend \/ pc # "new")
    /\ UNCHANGED <<busVars, rxAlive, txAlive, received, event_receiver, pc,
                   accumulated_time, frame_time, accAtFrameStart, updatesInFrame, renders,
                   result, exitBy, taken, extVars>>

\* the loop thread, observed for its first MaxSent frames
BurstThread ==
    \/ RunStart /\ UNCHANGED extVars
    \/ renders < MaxSent /\ RunRecv /\ UNCHANGED extVars
    \/ \E ft \in FrameTimes : ProcessFrame(ft) /\ UNCHANGED extVars
    \/ Update /\ UNCHANGED extVars
    \/ Render /\ UNCHANGED extVars

BurstNext ==
    \/ BurstSend
    \/ BurstThread

\* The loop thread is scheduled whenever it can step; the producer is free.
BurstSpec == LoopInit /\ [][BurstNext]_vars /\ WF_vars(BurstThread)

\* The queue of a subscriber of "engine" after CHANNEL_CAPACITY calls of
\* publish("engine", Update) that nobody drained.
FullQueue ==
    [i \in 1..CHANNEL_CAPACITY |-> PrioritizedEvent("Normal", GameEvent("Update", i))]

\* The bus after subscribe("engine") and CHANNEL_CAPACITY undrained publish
\* calls on "engine": the subscriber's queue is full.
FullInit ==
    /\ senders = ("engine" :> <<1>>)
    /\ lock = "free"
    /\ pub = [p \in Publishers |-> IdlePub]
    /\ ret = "Ok"
    /\ nPub = CHANNEL_CAPACITY
    /\ callLog = [i \in 1..CHANNEL_CAPACITY |->
                     [topic |-> "engine", kind |-> "Update", priority |-> "None"]]
    /\ pubLog = ("engine" :> FullQueue)
    /\ subTopic = <<"engine">>
    /\ subStart = <<0>>
    /\ chan = <<FullQueue>>
    /\ rxAlive = <<TRUE>>
    /\ txAlive = <<TRUE>>
    /\ received = << << >> >>
    /\ NoLoop
    /\ ExtInit
    /\ NoClones
    /\ NoGui

\* a further publish call on the bus whose first queue began full
FullPublish(p, t) ==
    /\ nPub < CHANNEL_CAPACITY + MaxPublishes
    /\ publish_with_priority(p, t, "Update", "None")

\* the subscriber removes one of the first few events of its queue
FullDrain(c) ==
    /\ Len(received[c]) < MaxDrains
    /\ Drain(c)

FullNext ==
    \/ \E t \in Topics : Subscribe(t) /\ UNCHANGED extVars
    \/ \E p \in Publishers, t \in Topics : FullPublish(p, t) /\ UNCHANGED extVars
    \/ \E p \in Publishers : PublishSend(p) /\ UNCHANGED extVars
    \/ \E c \in Channels : FullDrain(c) /\ UNCHANGED extVars
    \/ \E c \in Channels : DropReceiver(c) /\ UNCHANGED extVars

FullSpec == FullInit /\ [][FullNext]_vars

\* The bus after one subscribe("engine").
PrioInit ==
    /\ senders = ("engine" :> <<1>>)
    /\ lock = "free"
    /\ pub = [p \in Publishers |-> IdlePub]
    /\ ret = "None"
    /\ nPub = 0
    /\ callLog = << >>
    /\ pubLog = << >>
    /\ subTopic = <<"engine">>
    /\ subStart = <<0>>
    /\ chan = << NewQueue("engine") >>
    /\ rxAlive = <<TRUE>>
    /\ txAlive = <<TRUE>>
    /\ received = << << >> >>
    /\ NoLoop
    /\ ExtInit
    /\ NoClones
    /\ NoGui

\* publish_with_priority("engine", event, priority) with any event variant and
\* any Option<Priority>
PrioPublish(p, kind, priority) == PublishBegin(p, "engine", kind, priority)

PrioNext ==
    \/ \E p \in Publishers, kind \in EventKinds, priority \in PriorityArgs :
          PrioPublish(p, kind, priority) /\ UNCHANGED extVars
    \/ \E p \in Publishers : PublishSend(p) /\ UNCHANGED extVars
    \/ \E c \in Channels : Drain(c) /\ UNCHANGED extVars

PrioSpec == PrioInit /\ [][PrioNext]_vars

----------------------------------------------------------------------------
(* Properties of the event bus, checked under Spec *)

\* everything that was ever enqueued on channel c, in queue order
Delivered(c) == received[c] \o chan[c]

\* the position of channel c in its topic's subscriber list
PosOf(c) == CHOOSE i \in 1..Len(senders[subTopic[c]]) : senders[subTopic[c]][i] = c

\* 1 when a publish call on c's topic is in progress and has not reached c yet
Pending(c) ==
    IF \E p \in Publishers : /\ pub[p].pc = "send"
                             /\ pub[p].topic = subTopic[c]
                             /\ pub[p].idx <= PosOf(c)
    THEN 1 ELSE 0

\* the events published on c's topic since c subscribed, in publish order
Expected(c) ==
    SubSeq(LogOf(subTopic[c]), subStart[c] + 1, Len(LogOf(subTopic[c])) - Pending(c))

Closed(t) == {c \in Channels : subTopic[c] = t /\ ~rxAlive[c]}

\* C1: on a topic with one (live) subscriber, what the subscriber has drained
\* followed by what is still queued is exactly the sequence of events published
\* on that topic since it subscribed, in publish order, whatever the priorities
\* and whatever is published on other topics.
C1_PerSubscriberFifo ==
    \A c \in Channels :
        (Len(senders[subTopic[c]]) = 1 /\ rxAlive[c]) => Delivered(c) = Expected(c)

\* C1 witness: the only subscriber of a topic has drained two events of
\* different priorities.
C1_Witness ==
    \E c \in Channels :
        /\ Len(senders[subTopic[c]]) = 1
        /\ Len(received[c]) = 2
        /\ received[c][1].priority # received[c][2].priority

\* C2: while every subscriber of a topic is alive, each of its k subscribers
\* holds exactly one copy of every event published since it subscribed, and no
\* queue holds an event that was published on another topic.
C2_FanOut ==
    /\ \A c \in Channels :
          Closed(subTopic[c]) = {} => Delivered(c) = Expected(c)
    /\ \A c \in Channels : \A i \in 1..Len(Delivered(c)) :
          \E j \in 1..Len(LogOf(subTopic[c])) :
              Delivered(c)[i] = LogOf(subTopic[c])[j]

\* C2 witness: no publish is in progress and two live subscribers of one topic
\* hold the same, non-empty, sequence of events.
C2_Witness ==
    \E c, d \in Channels :
        /\ c # d
        /\ subTopic[c] = subTopic[d]
        /\ rxAlive[c] /\ rxAlive[d]
        /\ lock = "free"
        /\ Delivered(c) # << >>
        /\ Delivered(c) = Delivered(d)

\* C3 (as claimed): when a publish call returns, and no receiver of its
\* topic was dropped while it ran, every live subscriber of the topic has the
\* published event at the tail of what was enqueued for it, whether or not
\* another subscriber of the topic is closed and whichever subscribed first.
C3_DeadSubscriberIsolated ==
    [][ \A p \in Publishers :
            (pub[p].pc = "send" /\ pub'[p].pc = "idle" /\ ~pub[p].raced) =>
                \A c \in Channels :
                    (subTopic[c] = pub[p].topic /\ rxAlive[c]) =>
                        /\ Delivered(c)' # << >>
                        /\ Delivered(c)'[Len(Delivered(c)')] = pub[p].ev
      ]_vars

\* C4: a publish call returns Err only if some subscriber of its topic is
\* closed, and returns Ok only if none is (a receiver dropped while the call
\* was already sending is the one exception: the call may have passed it).
\* A publish on a topic without subscribers returns Ok.
C4_PublishErrIffClosed ==
    [][ /\ \A p \in Publishers :
              (pub[p].pc = "send" /\ pub'[p].pc = "idle") =>
                  /\ ret' \in {"Ok", "Err"}
                  /\ ret' = "Err" => Closed(pub[p].topic) # {}
                  /\ (ret' = "Ok" /\ ~pub[p].raced) => Closed(pub[p].topic) = {}
        /\ (nPub' = nPub + 1 /\ lock' = "free") =>
              /\ ret' = "Ok"
              /\ \A t \in Topics :
                    Len(LogOf(t)') > Len(LogOf(t)) => Closed(t) = {}
      ]_vars

\* C4 witness: a publish call has returned Err while a subscriber of the
\* topic is still alive.
C4_Witness ==
    /\ ret = "Err"
    /\ \E c, d \in Channels : subTopic[c] = subTopic[d] /\ rxAlive[c] /\ ~rxAlive[d]

----------------------------------------------------------------------------
(* Properties of the game loop, checked under LoopSpec and FairLoopSpec *)

Queue == chan[event_receiver]

WasTaken(e) == \E i \in 1..Len(taken) : taken[i].ev = e
WasSent(e) == \E i \in 1..Len(sentLog) : sentLog[i] = e

\* the queue of the short-circuit scenario P3
P3Queue == <<UpdateNormal, UpdateNormal, StopHigh, LogLow>>

\* C5 (as claimed): when run() is called on a queue holding exactly
\* [Normal Update, Normal Update, High Stop, Low Log] and nothing is sent
\* afterwards, the Low Log is never received, and once the High Stop has been
\* received run() has returned, whatever time the frames measure.
C5_P3ShortCircuit ==
    (sentLog = P3Queue /\ ~lateSend) =>
        /\ ~WasTaken(LogLow)
        /\ WasTaken(StopHigh) => pc = "done"

\* C6 (as claimed): once update() has found a High Stop, nothing more is
\* received from the queue, and the loop finishes the current frame (render)
\* and returns: it is never back at run()'s blocking receive or in update().
C6_StopInUpdateEndsRun ==
    \A i \in 1..Len(taken) :
        (taken[i].by = "update" /\ taken[i].ev = StopHigh) =>
            /\ i = Len(taken)
            /\ pc \in {"render", "done"}

\* C7 (as claimed): once a High Stop has been sent on the loop's channel,
\* run() eventually returns Ok(()), the loop thread being scheduled fairly.
C7_StopLiveness ==
    [](WasSent(StopHigh) => <>(pc = "done" /\ result = "Ok"))

\* C8: when run()'s blocking receive yields a High Stop, that very step
\* returns Ok(()) with no frame, update or render (the accumulator and the
\* counters are untouched, only the Stop leaves the queue), and after run()
\* has returned nothing more is received, updated or rendered.
C8_StopAtRecvReturnsAtOnce ==
    [][ /\ (pc = "recv" /\ pc' # "recv" /\ Queue # << >> /\ Head(Queue) = StopHigh) =>
              /\ pc' = "done"
              /\ result' = "Ok"
              /\ Queue' = Tail(Queue)
              /\ renders' = renders
              /\ updatesInFrame' = updatesInFrame
              /\ accumulated_time' = accumulated_time
        /\ pc = "done" =>
              /\ pc' = "done"
              /\ result' = result
              /\ taken' = taken
              /\ renders' = renders
              /\ accumulated_time' = accumulated_time
              /\ Len(Queue') >= Len(Queue)
      ]_vars

\* C8 witness: run() has returned on a High Stop taken by its blocking
\* receive while events were still pending in the queue.
C8_Witness ==
    /\ pc = "done"
    /\ exitBy = "stop"
    /\ taken[Len(taken)] = [ev |-> StopHigh, by |-> "run"]
    /\ Queue # << >>

\* C9: once every sender of the loop's channel has been dropped, run()
\* eventually returns Ok(()); and when run() returns because the channel is
\* closed, it returns Ok(()) with the queue empty and every event that was
\* sent received, in the order sent.
C9_ClosedQueueGraceful ==
    /\ [](~txAlive[event_receiver] => <>(pc = "done" /\ result = "Ok"))
    /\ []((pc = "done" /\ exitBy = "closed") =>
            /\ result = "Ok"
            /\ Queue = << >>
            /\ Len(taken) = Len(sentLog)
            /\ \A i \in 1..Len(taken) : taken[i].ev = sentLog[i])

\* C9 witness: run() has returned Ok(()) on a closed channel after receiving
\* three events, none of them a High Stop.
C9_Witness ==
    /\ pc = "done"
    /\ exitBy = "closed"
    /\ result = "Ok"
    /\ Len(taken) = 3
    /\ ~WasSent(StopHigh)

\* C10: with target_fps = 60 and max_updates = 60, process_frame adds at most
\* 1/max_updates seconds to the accumulator, and a frame that measured 5
\* seconds calls update() at most floor(target_fps / max_updates) = 1 time.
C10_SpiralOfDeathGuard ==
    /\ [][ (pc = "frame" /\ pc' # "frame") =>
              DurGE(DurAdd(accumulated_time, Dur(0, NANOS_PER_SEC \div max_updates)),
                    accumulated_time') ]_vars
    /\ [](frame_time = Dur(5, 0) => updatesInFrame <= target_fps \div max_updates)

\* C10 witness: a frame that measured 5 seconds has called update() once and
\* is about to render.
C10_Witness ==
    /\ pc = "render"
    /\ frame_time = Dur(5, 0)
    /\ updatesInFrame = 1

----------------------------------------------------------------------------
(* Frame effects of process_frame, checked under LoopSpec *)

\* a gap of 50 ms between two process_frame calls
FiftyMillis == Dur(0, 50000000)

\* C11 as stated: with target_fps = 60, a frame that measured a gap of 50 ms
\* since the previous frame and began with an empty accumulator has called
\* update() exactly 3 times when it reaches render().
C11_ThreeUpdatesAfter50ms ==
    (/\ pc = "render"
     /\ renders >= 1
     /\ frame_time = FiftyMillis
     /\ accAtFrameStart = DurZero) => updatesInFrame = 3

\* C11 amended: with target_fps = 60 and max_updates = 60 the 50 ms gap is
\* clamped to 1/60 s = 16,666,666 ns before it is accumulated; from an empty
\* accumulator that stays below frame_duration (16,666,667 ns), so the frame
\* goes straight to render() and calls update() zero times.
C11_ClampedGapRunsNoUpdate ==
    (frame_time = FiftyMillis /\ accAtFrameStart = DurZero) =>
        /\ pc = "render"
        /\ updatesInFrame = 0
        /\ accumulated_time = Dur(0, 16666666)

\* C11 witness: a second frame measured 50 ms from an empty accumulator and
\* stands before render() without having called update().
C11_Witness ==
    /\ pc = "render"
    /\ renders >= 1
    /\ frame_time = FiftyMillis
    /\ accAtFrameStart = DurZero
    /\ updatesInFrame = 0

\* the frames run() has begun: events received by run() that were not the
\* High-priority Stop
FramesBegun ==
    Cardinality({i \in 1..Len(taken) :
                    taken[i].by = "run" /\ ~(/\ taken[i].ev.event.kind = "Stop"
                                             /\ taken[i].ev.priority = "High")})

\* C12: every process_frame calls render() exactly once, and only after every
\* update() due in that frame has completed: the number of render() calls is
\* the number of finished frames, render() runs only when the accumulator is
\* below frame_duration, it ends the frame, and no update() step renders.
C12_RenderOncePerFrameAfterUpdates ==
    /\ [](renders = FramesBegun - (IF pc \in {"frame", "update", "render"} THEN 1 ELSE 0))
    /\ [][ renders' # renders =>
              /\ renders' = renders + 1
              /\ pc = "render"
              /\ ~DurGE(accumulated_time, frame_duration)
              /\ pc' = "recv" ]_vars
    /\ [][ pc = "update" => renders' = renders ]_vars

\* C12 witness: the second frame has called update() once, the update has
\* completed, and the frame stands before its render(); the first frame
\* rendered once.
C12_Witness ==
    /\ pc = "render"
    /\ updatesInFrame = 1
    /\ renders = 1
    /\ ~DurGE(accumulated_time, frame_duration)

----------------------------------------------------------------------------
(* Backpressure and the registry lock, checked under FullSpec *)

\* the queue publisher p is about to send to
NextTarget(p) == Targets(pub[p].topic)[pub[p].idx]

\* publisher p stands in the fan-out before a live subscriber's full queue
BlockedOnFull(p) ==
    /\ pub[p].pc = "send"
    /\ rxAlive[NextTarget(p)]
    /\ Len(chan[NextTarget(p)]) >= CHANNEL_CAPACITY

\* C13 as stated: the registry lock is not held across the fan-out send, so
\* while a publisher is blocked on a full queue of its topic the lock is free
\* for a subscribe or publish on another topic by another thread.
C13_LockFreeWhileBlocked ==
    \A p \in Publishers : BlockedOnFull(p) => lock = "free"

\* C14: backpressure without loss. A publisher before a live subscriber's full
\* queue neither advances nor changes the queue; the only changes of a live
\* queue are the removal of its head by the subscriber and the arrival of the
\* sending publisher's event at its tail; once the queue has room the send can
\* proceed; and a live subscriber that no closed subscriber precedes holds or
\* has drained every event published on its topic since it subscribed.
C14_BackpressureWithoutLoss ==
    /\ [][ \A p \in Publishers :
              (BlockedOnFull(p) /\ rxAlive'[NextTarget(p)]) =>
                  /\ pub'[p].pc = "send"
                  /\ pub'[p].idx = pub[p].idx
                  /\ pub'[p].ev = pub[p].ev
                  /\ \/ chan'[NextTarget(p)] = chan[NextTarget(p)]
                     \/ chan'[NextTarget(p)] = Tail(chan[NextTarget(p)]) ]_vars
    /\ [][ \A c \in Channels :
              \/ chan'[c] = chan[c]
              \/ chan[c] # << >> /\ chan'[c] = Tail(chan[c])
              \/ \E p \in Publishers :
                    /\ pub[p].pc = "send"
                    /\ NextTarget(p) = c
                    /\ Len(chan[c]) < CHANNEL_CAPACITY
                    /\ chan'[c] = Append(chan[c], pub[p].ev) ]_vars
    /\ [](\A p \in Publishers :
              (/\ pub[p].pc = "send"
               /\ rxAlive[NextTarget(p)]
               /\ Len(chan[NextTarget(p)]) < CHANNEL_CAPACITY) => ENABLED PublishSend(p))
    /\ [](\A c \in Channels :
              (/\ rxAlive[c]
               /\ \A d \in Closed(subTopic[c]) : PosOf(d) > PosOf(c))
                  => Delivered(c) = Expected(c))

\* C14 witness: the subscriber whose queue was full has removed one event, the
\* publish call that was waiting has returned Ok, and its event (the first one
\* published after the queue was full) is the last of the again full queue.
C14_Witness ==
    /\ rxAlive[1]
    /\ Len(received[1]) = 1
    /\ Len(chan[1]) = CHANNEL_CAPACITY
    /\ chan[1][CHANNEL_CAPACITY].event.data = CHANNEL_CAPACITY + 1
    /\ \A p \in Publishers : pub[p].pc = "idle"
    /\ ret = "Ok"

\* C15: every subscriber queue holds at most 100 pending events.
C15_QueueBounded ==
    \A c \in Channels : Len(chan[c]) <= CHANNEL_CAPACITY

\* C15 witness: a publisher waits before a queue that holds 100 events and is
\* full for the second time, after the subscriber had made room once.
C15_Witness ==
    \E p \in Publishers :
        /\ BlockedOnFull(p)
        /\ Len(chan[NextTarget(p)]) = CHANNEL_CAPACITY
        /\ received[NextTarget(p)] # << >>

----------------------------------------------------------------------------
(* Subscription start and unknown topics, checked under Spec *)

\* C16: no replay. The queue of a new subscription starts empty, and every
\* event a subscriber ever holds was published on its topic after it
\* subscribed: none of the events published before is delivered to it.
C16_NoReplay ==
    /\ [][ \A c \in 1..Len(chan') : c > Len(chan) => chan'[c] = << >> ]_vars
    /\ [](\A c \in Channels : \A i \in 1..Len(Delivered(c)) :
              \E j \in (subStart[c] + 1)..Len(LogOf(subTopic[c])) :
                  Delivered(c)[i] = LogOf(subTopic[c])[j])

\* C16 witness: a subscriber that registered after a publish on its topic
\* has been sent a later event.
C16_Witness ==
    \E c \in Channels :
        /\ subStart[c] >= 1
        /\ Delivered(c) # << >>

----------------------------------------------------------------------------
(* Priorities, checked under PrioSpec *)

\* C18: priority resolution. The i-th event the subscriber is sent is the
\* event of the i-th publish call, payload unchanged; it carries the explicit
\* priority when the call gave one (Update with Some(High) arrives High) and
\* the kind's default priority when it gave none (Update arrives Normal, Stop
\* arrives High).
C18_PriorityResolution ==
    \A i \in 1..Len(Delivered(1)) :
        LET e == Delivered(1)[i]
            call == callLog[i]
        IN /\ e.event = GameEvent(call.kind, i)
           /\ call.priority # "None" => e.priority = call.priority
           /\ call.priority = "None" => e.priority = default_priority(call.kind)
           /\ (call.kind = "Update" /\ call.priority = "High") => e.priority = "High"
           /\ (call.kind = "Update" /\ call.priority = "None") => e.priority = "Normal"
           /\ (call.kind = "Stop" /\ call.priority = "None") => e.priority = "High"

\* C18 witness: the subscriber has been sent an Update published with
\* Some(High), now High, and a Stop published without priority, now High.
C18_Witness ==
    \E i, j \in 1..Len(Delivered(1)) :
        /\ callLog[i].kind = "Update" /\ callLog[i].priority = "High"
        /\ Delivered(1)[i].priority = "High"
        /\ callLog[j].kind = "Stop" /\ callLog[j].priority = "None"
        /\ Delivered(1)[j].priority = "High"

\* C19: default_priority is total over the event variants and maps Start,
\* Stop, Pause and Resume to High, Update, TurnStart, TurnEnd and UnitMove to
\* Normal, Log and Stats to Low: every event published without an explicit
\* priority carries the priority of its variant's class.
C19_DefaultPriorityTable ==
    \A i \in 1..Len(callLog) :
        callLog[i].priority = "None" =>
            LET kind == callLog[i].kind
                prio == LogOf("engine")[i].priority
            IN /\ prio \in Priorities
               /\ kind \in {"Start", "Stop", "Pause", "Resume"} => prio = "High"
               /\ kind \in {"Update", "TurnStart", "TurnEnd", "UnitMove"} => prio = "Normal"
               /\ kind \in {"Log", "Stats"} => prio = "Low"
               /\ kind \in {"Start", "Stop", "Pause", "Resume", "Update", "TurnStart",
                             "TurnEnd", "UnitMove", "Log", "Stats"}

\* C19 witness: a Stats event and a Pause event were published without an
\* explicit priority and were classified Low and High.
C19_Witness ==
    \E i, j \in 1..Len(callLog) :
        /\ callLog[i] = [topic |-> "engine", kind |-> "Stats", priority |-> "None"]
        /\ LogOf("engine")[i].priority = "Low"
        /\ callLog[j] = [topic |-> "engine", kind |-> "Pause", priority |-> "None"]
        /\ LogOf("engine")[j].priority = "High"

\* C20 as stated: the ordering of the Priority type ranks High strictly above
\* Normal and Normal strictly above Low: of two published events, the one with
\* the priority named first in High, Normal, Low compares greater.
C20_HighAboveNormalAboveLow ==
    \A i, j \in 1..Len(LogOf("engine")) :
        LET a == LogOf("engine")[i].priority
            b == LogOf("engine")[j].priority
        IN (\/ a = "High" /\ b = "Normal"
            \/ a = "Normal" /\ b = "Low"
            \/ a = "High" /\ b = "Low") => PriorityGreater(a, b)

----------------------------------------------------------------------------
(* Topic isolation, checked under Spec *)

\* C25: topic isolation. A step enqueues an event only on a queue whose topic
\* is the topic of the publish call that sends it, and everything a queue ever
\* held was published on its own topic and on no other.
C25_TopicIsolation ==
    /\ [][ \A c \in Channels :
              Len(chan'[c]) > Len(chan[c]) =>
                  \E p \in Publishers :
                      /\ pub[p].pc = "send"
                      /\ pub[p].topic = subTopic[c]
                      /\ chan'[c] = Append(chan[c], pub[p].ev) ]_vars
    /\ [](\A c \in Channels : \A i \in 1..Len(Delivered(c)) : \A t \in Topics :
              (\E j \in 1..Len(LogOf(t)) : LogOf(t)[j] = Delivered(c)[i])
                  <=> t = subTopic[c])

\* C25 witness: subscribers of two topics exist since before any publish, a
\* publish on one topic has completed, its subscriber holds the event and the
\* subscriber of the other topic holds nothing.
C25_Witness ==
    \E c, d \in Channels :
        /\ subTopic[c] # subTopic[d]
        /\ subStart[c] = 0 /\ subStart[d] = 0
        /\ rxAlive[c] /\ rxAlive[d]
        /\ lock = "free"
        /\ Delivered(c) # << >>
        /\ Delivered(d) = << >>
        /\ LogOf(subTopic[d]) = << >>

----------------------------------------------------------------------------
(* The accumulator and the order of consumption, checked under LoopSpec *)

RECURSIVE DurAddTimes(_, _, _)
\* a + n * d
DurAddTimes(a, d, n) == IF n = 0 THEN a ELSE DurAddTimes(DurAdd(a, d), d, n - 1)

\* C27: the accumulator invariant. When process_frame is through its update
\* loop, and whenever it has returned, accumulated_time is a Duration of at
\* least 0 and strictly below frame_duration; and the frame has subtracted
\* frame_duration exactly once per update() call: what is left plus one
\* frame_duration per call is what the frame started with plus its clamped
\* frame time.
C27_AccumulatorInvariant ==
    /\ pc \in {"render", "recv", "done"} =>
          /\ accumulated_time.secs >= 0
          /\ accumulated_time.nanos \in 0..(NANOS_PER_SEC - 1)
          /\ ~DurGE(accumulated_time, frame_duration)
    /\ pc = "render" =>
          DurAddTimes(accumulated_time, frame_duration, updatesInFrame)
              = DurAdd(accAtFrameStart, ClampedFrameTime(frame_time))

\* C27 witness: a frame that began with 16,666,666 ns accumulated has called
\* update() once and stands before render() with 16,666,665 ns left.
C27_Witness ==
    /\ pc = "render"
    /\ accAtFrameStart = Dur(0, 16666666)
    /\ updatesInFrame = 1
    /\ accumulated_time = Dur(0, 16666665)

\* the events the loop has received, in the order it received them
TakenEvents == [i \in 1..Len(taken) |-> taken[i].ev]

\* C28: the loop consumes its queue in arrival order, each event once, with
\* no reordering by priority and no skipping: what run() and update() have
\* received, followed by what is still queued, is the sequence of events
\* sent; when run() has returned on the High Stop, every event sent before
\* that Stop, whatever its priority, has been received by run() or update().
C28_ArrivalOrderNoSkip ==
    /\ TakenEvents \o Queue = sentLog
    /\ \A i \in 1..Len(taken) : taken[i].by \in {"run", "update"}
    /\ exitBy = "stop" =>
          /\ taken # << >>
          /\ taken[Len(taken)] = [ev |-> StopHigh, by |-> "run"]
          /\ \A i \in 1..Len(taken) : taken[i].ev = sentLog[i]

\* C28 witness: run() has returned on a High Stop that was sent last of four
\* events; a Low Log sent before it was received by update().
C28_Witness ==
    /\ exitBy = "stop"
    /\ Len(taken) = 4
    /\ \E i \in 1..3 : taken[i] = [ev |-> LogLow, by |-> "update"]

----------------------------------------------------------------------------
(* Stop events of every priority, checked under StopSpec *)

NonHighStop(e) == e.event.kind = "Stop" /\ e.priority # "High"

\* C29: only a Stop of High priority ends run(). run() leaves its loop on a
\* Stop only when its own receive yields a High Stop; a Stop tagged Normal or
\* Low received by run() starts a frame like any event; one drained by
\* update() leaves update() draining, the accumulator and the frame untouched.
C29_OnlyHighStopTerminates ==
    [][ /\ (pc # "done" /\ pc' = "done" /\ exitBy' = "stop") =>
              /\ pc = "recv"
              /\ Queue # << >>
              /\ Head(Queue).event.kind = "Stop"
              /\ Head(Queue).priority = "High"
        /\ (pc = "recv" /\ pc' # "recv" /\ Queue # << >> /\ NonHighStop(Head(Queue))) =>
              /\ pc' = "frame"
              /\ result' = "None"
              /\ exitBy' = "none"
        /\ (/\ pc = "update" /\ Queue # << >> /\ NonHighStop(Head(Queue))
            /\ Queue' = Tail(Queue)) =>
              /\ pc' = "update"
              /\ accumulated_time' = accumulated_time
              /\ updatesInFrame' = updatesInFrame
              /\ result' = "None"
      ]_vars

\* C29 witness: run() has received a Normal Stop, update() has drained a Low
\* Stop, and run() is still looping.
C29_Witness ==
    /\ \E i \in 1..Len(taken) : taken[i] = [ev |-> StopNormal, by |-> "run"]
    /\ \E i \in 1..Len(taken) : taken[i] = [ev |-> StopLow, by |-> "update"]
    /\ pc = "recv"
    /\ result = "None"

----------------------------------------------------------------------------
(* Termination of update() under sustained publishing, checked under BurstSpec *)

\* C30 as stated: each update() call terminates even while producers keep
\* publishing: the n-th update() call of a frame is eventually over, the loop
\* thread being scheduled fairly.
C30_UpdateTerminates ==
    \A n \in 1..2 :
        [](( pc = "update" /\ updatesInFrame = n) =>
              <>(pc # "update" \/ updatesInFrame # n))

----------------------------------------------------------------------------
(* publish_error, checked under ErrorSpec *)

\* the positions of the event of publish call n in the log of topic t
LogPositions(t, n) == {j \in 1..Len(LogOf(t)) : LogOf(t)[j].event.data = n}

\* C21: every publish_error(message) call publishes, once and on the topic
\* "error" only, a Log event with level Error and the given message at
\* priority High, and that is what the subscribers of "error" are sent;
\* whereas a Log event published without priority carries the default Low.
C21_PublishError ==
    /\ \A k \in 1..Len(errLog) :
          LET n == errLog[k].call
              ev == PrioritizedEvent("High", LogEvent(errLog[k].message, "Error", n))
          IN /\ callLog[n].topic = "error"
             /\ Cardinality(LogPositions("error", n)) = 1
             /\ \A j \in LogPositions("error", n) : LogOf("error")[j] = ev
             /\ LogPositions("engine", n) = {}
             /\ \A c \in Channels : \A i \in 1..Len(Delivered(c)) :
                   Delivered(c)[i].event.data = n =>
                       subTopic[c] = "error" /\ Delivered(c)[i] = ev
    /\ \A n \in 1..Len(callLog) : \A j \in LogPositions(callLog[n].topic, n) :
          callLog[n].priority = "None" => LogOf(callLog[n].topic)[j].priority = "Low"

\* C21 witness: a subscriber of "error" has been sent the Log event of a
\* publish_error("disk full") call, level Error, priority High, and a Log
\* event published without priority, priority Low.
C21_Witness ==
    \E c \in Channels : \E i, j \in 1..Len(Delivered(c)) :
        /\ subTopic[c] = "error"
        /\ errLog # << >>
        /\ Delivered(c)[i].event.data = errLog[1].call
        /\ Delivered(c)[i].event.message = "disk full"
        /\ Delivered(c)[i].event.level = "Error"
        /\ Delivered(c)[i].priority = "High"
        /\ Delivered(c)[j].priority = "Low"

----------------------------------------------------------------------------
(* Unit::move_to, checked under UnitSpec *)

\* C26: move_to(position, cost) returns true exactly when movement_points >=
\* cost. On success the unit is at the new position, movement_points is lower
\* by cost and the status is Exhausted when no point is left and Moving
\* otherwise, the other fields untouched; on failure the whole unit is
\* unchanged. movement_points never goes below 0.
C26_MoveTo ==
    /\ [][ lastMove'.n # lastMove.n =>
              /\ lastMove'.ret <=> unit.movement_points >= lastMove'.cost
              /\ lastMove'.ret =>
                    /\ unit'.position = lastMove'.position
                    /\ unit'.movement_points = unit.movement_points - lastMove'.cost
                    /\ unit'.status = IF unit'.movement_points = 0
                                      THEN "Exhausted" ELSE "Moving"
                    /\ unit'.unit_type = unit.unit_type
                    /\ unit'.health = unit.health
              /\ ~lastMove'.ret => unit' = unit ]_vars
    /\ [](unit.movement_points \in Nat)

\* C26 witness: a move has used up the unit's last points and a later move
\* of positive cost to another position was refused, leaving the unit
\* Exhausted where it was.
C26_Witness ==
    /\ lastMove.n >= 2
    /\ ~lastMove.ret
    /\ lastMove.cost > 0
    /\ lastMove.position # unit.position
    /\ unit.status = "Exhausted"
    /\ unit.movement_points = 0

----------------------------------------------------------------------------
(* The Engine facade, checked under FacadeSpec *)

\* the plain events of a queue of prioritized events
Events(q) == [i \in 1..Len(q) |-> q[i].event]

\* what the forwarding thread a has passed on so far: drained by the plain
\* receiver, queued for it, or in the thread's hand
Forwarded(a) ==
    received[adapters[a].out] \o chan[adapters[a].out]
        \o (IF adapters[a].pc = "send" THEN <<adapters[a].ev>> ELSE << >>)

\* C22 (as claimed): while the plain receiver of an Engine::subscribe
\* subscription is alive, the events its forwarding thread has passed on,
\* followed by those still waiting in the subscription's bus queue, are
\* exactly the events published on the topic since the subscription, once
\* each and in publish order.
C22_PlainAdapterForwardsAll ==
    \A a \in Adapters :
        (adapters[a].kind = "plain" /\ adapters[a].pc \in {"recv", "send"}
            /\ rxAlive[adapters[a].out]) =>
                Forwarded(a) \o Events(chan[adapters[a].in])
                    = Events(Expected(adapters[a].in))

\* C23: a call of Engine::start() or Engine::stop() is one publish call that
\* adds exactly one event to the topic "engine" (Start, respectively Stop, at
\* High priority) and none to another topic, and leaves the running flag true
\* after start() and false after stop(); nothing else changes the flag.
C23_StartStop ==
    [][ /\ engineLog' # engineLog =>
              LET call == engineLog'[Len(engineLog')]
                  kind == IF call.op = "start" THEN "Start" ELSE "Stop"
              IN /\ Len(engineLog') = Len(engineLog) + 1
                 /\ nPub' = nPub + 1
                 /\ call.call = nPub'
                 /\ running' = (call.op = "start")
                 /\ LogOf("engine")' =
                        Append(LogOf("engine"),
                               PrioritizedEvent("High", GameEvent(kind, nPub')))
                 /\ LogOf("error")' = LogOf("error")
        /\ engineLog' = engineLog => running' = running
      ]_vars

\* C23 witness: start() then stop() were called, the flag is false again and
\* a subscriber of "engine" has drained the Start and the Stop event, both High.
C23_Witness ==
    /\ Len(engineLog) = 2
    /\ engineLog[1].op = "start"
    /\ engineLog[2].op = "stop"
    /\ ~running
    /\ \E c \in Channels :
          /\ subTopic[c] = "engine"
          /\ received[c] = <<PrioritizedEvent("High", GameEvent("Start", 1)),
                             PrioritizedEvent("High", GameEvent("Stop", 2))>>

----------------------------------------------------------------------------
(* Stopping the scheduler through the facade, checked under EngineLoopSpec *)

\* C24 (as claimed): once Engine::stop() has been called, the run() of the
\* GameLoop that reads the facade's "engine" subscription eventually
\* returns Ok(()).
C24_StopEndsLoop == StopCalled ~> (result = "Ok")

----------------------------------------------------------------------------
(* Clones of the bus handle, checked under CloneSpec *)

\* C31: every handle designates the registry of the handle it was cloned
\* from, so through every handle the same registry is seen: it lists every
\* subscription, whichever handle made it, and every subscriber holds
\* exactly the events published since it subscribed, whichever handle each
\* publish call went through.
C31_ClonesShareRegistry ==
    /\ \A h \in Handles :
          handles[h].from # 0 => handles[h].reg = handles[handles[h].from].reg
    /\ \A h \in Handles : \A c \in Channels :
          /\ subTopic[c] \in DOMAIN RegistryOf(h)
          /\ \E i \in 1..Len(RegistryOf(h)[subTopic[c]]) :
                RegistryOf(h)[subTopic[c]][i] = c
    /\ \A c \in Channels : Delivered(c) = Expected(c)

\* C31 witness: a subscriber has drained an event whose publish call went
\* through another handle than its subscription, and one that went through
\* the same handle.
C31_Witness ==
    \E c \in Channels : \E i, j \in 1..Len(received[c]) :
        /\ pubVia[received[c][i].event.data] # subVia[c]
        /\ pubVia[received[c][j].event.data] = subVia[c]

----------------------------------------------------------------------------
(* Closed subscribers stay registered, checked under Spec *)

\* C32: no step removes a handle from a topic's subscriber list (the list
\* only grows at its end, a closed subscriber stays in it), and a publish
\* call on a topic that had a closed subscriber when it began returns Err.
C32_ClosedSubscriberStays ==
    [][ /\ \A t \in DOMAIN senders :
              /\ t \in DOMAIN senders'
              /\ Len(senders'[t]) >= Len(senders[t])
              /\ SubSeq(senders'[t], 1, Len(senders[t])) = senders[t]
        /\ \A c \in Channels :
              ~rxAlive[c] =>
                  /\ ~rxAlive'[c]
                  /\ \E i \in 1..Len(senders'[subTopic[c]]) : senders'[subTopic[c]][i] = c
        /\ \A p \in Publishers :
              (pub[p].pc = "send" /\ pub'[p].pc = "idle"
                  /\ ~pub[p].raced /\ Closed(pub[p].topic) # {}) => ret' = "Err"
        /\ (nPub' = nPub + 1 /\ lock' = "free") =>
              \A t \in Topics : Len(LogOf(t)') > Len(LogOf(t)) => Closed(t) = {}
      ]_vars

\* C32 witness: two publish calls were made on a topic after its only
\* subscriber was closed; the subscriber is still registered, its queue got
\* nothing and the latest call returned Err.
C32_Witness ==
    /\ nPub = 2
    /\ lock = "free"
    /\ ret = "Err"
    /\ \E c \in Channels :
          /\ ~rxAlive[c]
          /\ senders[subTopic[c]] = <<c>>
          /\ Delivered(c) = << >>
          /\ Len(LogOf(subTopic[c])) = 2

----------------------------------------------------------------------------
(* Concurrent publish calls on one topic, checked under Spec *)

\* in queue q the event of publish call x comes before the event of call y
Before(q, x, y) ==
    \E i, j \in 1..Len(q) : i < j /\ q[i].event.data = x /\ q[j].event.data = y

\* C33: two live subscribers of one topic never hold the events of two
\* publish calls in opposite orders, however the publishing threads
\* interleave.
C33_SameOrderEverywhere ==
    \A c, d \in Channels :
        (subTopic[c] = subTopic[d] /\ rxAlive[c] /\ rxAlive[d]) =>
            \A x, y \in 1..nPub :
                ~(Before(Delivered(c), x, y) /\ Before(Delivered(d), y, x))

\* C33 witness: two live subscribers of one topic hold the events of the
\* first two publish calls, in the same order.
C33_Witness ==
    \E c, d \in Channels :
        /\ c # d
        /\ subTopic[c] = subTopic[d]
        /\ rxAlive[c] /\ rxAlive[d]
        /\ Before(Delivered(c), 1, 2)
        /\ Before(Delivered(d), 1, 2)

----------------------------------------------------------------------------
(* Priorities on the facade path, checked under RetagSpec *)

----------------------------------------------------------------------------
(* Cancelling a plain subscription, checked under FacadeSpec *)

\* the plain subscriptions whose channel and thread exist
PlainSubs == {a \in Adapters : adapters[a].kind = "plain" /\ adapters[a].pc # "new"}

\* C35: dropping the plain receiver does not end the forwarding thread. A
\* waiting thread leaves recv() only with an event taken from the bus
\* queue; it ends only when the send of such an event fails because the
\* plain receiver is gone, and the event is discarded; the bus queue is
\* closed exactly when the thread has ended. A publish call returns Ok
\* while no bus queue of its topic is closed, also when the plain receiver
\* is gone, and Err once one is closed.
C35_CancellationDelayed ==
    [][ /\ \A a \in PlainSubs :
              /\ rxAlive[adapters[a].in] <=> adapters[a].pc # "done"
              /\ (adapters[a].pc = "recv" /\ adapters'[a].pc # "recv") =>
                    /\ chan[adapters[a].in] # << >>
                    /\ adapters'[a].pc = "send"
                    /\ adapters'[a].ev = Head(chan[adapters[a].in]).event
              /\ (adapters[a].pc # "done" /\ adapters'[a].pc = "done") =>
                    /\ adapters[a].pc = "send"
                    /\ ~rxAlive[adapters[a].out]
                    /\ chan'[adapters[a].out] = chan[adapters[a].out]
                    /\ ~rxAlive'[adapters[a].in]
        /\ \A p \in Publishers :
              (pub[p].pc = "send" /\ pub'[p].pc = "idle" /\ ~pub[p].raced) =>
                  ret' = IF Closed(pub[p].topic) = {} THEN "Ok" ELSE "Err"
      ]_vars

\* C35 witness: the plain receiver was dropped while the forwarding thread
\* waited on an empty bus queue it never got an event from; the thread is
\* still waiting, the bus queue is open and a publish call is about to
\* deliver an event to it.
C35_Witness ==
    \E a \in PlainSubs :
        /\ ~rxAlive[adapters[a].out]
        /\ adapters[a].pc = "recv"
        /\ rxAlive[adapters[a].in]
        /\ Delivered(adapters[a].in) = << >>
        /\ pub["p1"].pc = "send"
        /\ Targets(pub["p1"].topic)[pub["p1"].idx] = adapters[a].in

----------------------------------------------------------------------------
(* Frames are driven by events, checked under LoopSpec *)

HighStop(e) == e.event.kind = "Stop" /\ e.priority = "High"

\* C36: a frame begins exactly when run()'s own receive yields an event that
\* is not a High Stop, and each such event begins one frame, so the render()
\* calls made plus the frame in progress count these events; an event
\* drained by update() begins no frame; while run() waits on an empty queue
\* nothing is updated or rendered.
C36_EventDriven ==
    /\ [](renders + (IF pc \in {"frame", "update", "render"} THEN 1 ELSE 0)
              = Cardinality({i \in 1..Len(taken) :
                                taken[i].by = "run" /\ ~HighStop(taken[i].ev)}))
    /\ [][ /\ (pc # "frame" /\ pc' = "frame") =>
                 /\ pc = "recv"
                 /\ chan[event_receiver] # << >>
                 /\ ~HighStop(Head(chan[event_receiver]))
                 /\ taken' = Append(taken, [ev |-> Head(chan[event_receiver]),
                                            by |-> "run"])
           /\ (pc = "recv" /\ chan'[event_receiver] # chan[event_receiver]
                   /\ Len(chan'[event_receiver]) < Len(chan[event_receiver])) =>
                 pc' = IF HighStop(Head(chan[event_receiver])) THEN "done" ELSE "frame"
           /\ (pc = "update" /\ taken' # taken) =>
                 /\ pc' \in {"update", "render"}
                 /\ taken'[Len(taken')].by = "update"
                 /\ renders' = renders
           /\ (pc = "recv" /\ chan[event_receiver] = << >>) =>
                 /\ pc' \in {"recv", "done"}
                 /\ renders' = renders
                 /\ updatesInFrame' = updatesInFrame
                 /\ accumulated_time' = accumulated_time
          ]_vars

\* C36 witness: run() waits on an empty queue after three events were
\* consumed, one of them drained by update(): two frames were rendered.
C36_Witness ==
    /\ pc = "recv"
    /\ chan[event_receiver] = << >>
    /\ Len(taken) = 3
    /\ taken[3].by = "update"
    /\ ~HighStop(taken[1].ev) /\ ~HighStop(taken[2].ev)
    /\ renders = 2

----------------------------------------------------------------------------
(* start() and stop() when the publish fails, checked under FacadeSpec *)

\* the Engine::start or Engine::stop call whose publish is in progress
EngineCallInProgress ==
    /\ pub["p1"].pc = "send"
    /\ engineLog # << >>
    /\ engineLog[Len(engineLog)].call = nPub

\* C37: the flag is written when start() or stop() begins, before the
\* publish; when that publish returns, with Ok or with Err, the flag still
\* has the value the call wrote, and it returns Err exactly when a
\* subscriber of "engine" is closed (a receiver dropped during the call
\* aside).
C37_FlagSetDespiteError ==
    [][ /\ engineLog' # engineLog =>
              /\ pub'["p1"].pc = "send" \/ ret' = "Ok"
              /\ running' = (engineLog'[Len(engineLog')].op = "start")
        /\ (EngineCallInProgress /\ pub'["p1"].pc = "idle") =>
              /\ running' = (engineLog[Len(engineLog)].op = "start")
              /\ running' = running
              /\ ~pub["p1"].raced =>
                    ret' = IF Closed("engine") # {} THEN "Err" ELSE "Ok"
      ]_vars

\* C37 witness: start() and then stop() were called while a subscriber of
\* "engine" was closed; stop()'s publish has returned Err, nothing was
\* delivered and the flag is false.
C37_Witness ==
    /\ Len(engineLog) = 2
    /\ engineLog[1].op = "start"
    /\ engineLog[2].op = "stop"
    /\ engineLog[2].call = nPub
    /\ pub["p1"].pc = "idle"
    /\ ret = "Err"
    /\ ~running
    /\ \E c \in Channels :
          /\ subTopic[c] = "engine"
          /\ ~rxAlive[c]
          /\ senders["engine"][1] = c
          /\ Delivered(c) = << >>

----------------------------------------------------------------------------
(* The selection of MapGUI, checked under GuiSpec *)

\* C38: selected_unit_id is None or the id of a unit in the unit table,
\* after every call, whatever its publish calls returned.
C38_SelectionInTable ==
    /\ Cardinality(selected_unit_id) <= 1
    /\ selected_unit_id \subseteq DOMAIN units

\* C38 witness: select_position on the cell of a unit has selected it and
\* returned Err, because its publish failed on a closed subscriber.
C38_Witness ==
    /\ guiLog.op = "select_position"
    /\ guiLog.ret = "Err"
    /\ ret = "Err"
    /\ selected_unit_id # {}
    /\ \A u \in selected_unit_id : selected_position = {units[u]}

====
